---- MODULE Spec2Model ----
(***************************************************************************)
(* Reconciliation engine of reconciliation/views.py: the key-based matcher *)
(* reconcile_oriental, its wrapper reconcile_generic, the per-bank         *)
(* dispatcher run_reconcile_by_bank and the two mapping views that call    *)
(* them and store the summary on the job.                                  *)
(*                                                                         *)
(* A frame has two columns, the one that holds policy identifiers and the  *)
(* one that holds premiums (numbers, None or NaN).  mapping_view reads the *)
(* frames from the files and hands the matcher what apply_mapping_to_df    *)
(* made of them; any other caller hands its frames over as they are.       *)
(*                                                                         *)
(* An amount is written as its number of hundredths (100.00 is 10000) and  *)
(* tol_pct as its number of ten-thousandths (0.01 is 100).  The matcher    *)
(* compares them as the program does, in IEEE-754 binary64: each is the    *)
(* double nearest to its decimal, and abs(pa - pb), abs(pa) * tol_pct and  *)
(* max(1e-9, ...) are the correctly rounded operations on doubles.         *)
(***************************************************************************)
EXTENDS Integers, Sequences, FiniteSets, TLC

VARIABLES
    caller,     \* who starts the run: "mapping_view", "mapping_advanced_view", "direct"
    job,        \* the ReconciliationJob (or None) handed to the dispatcher
    dfA, dfB,   \* the two data frames handed to the matcher
    params,     \* the params argument: None or a dict
    pc,         \* position of the run
    keys,       \* sorted(a_keys | b_keys)
    idx,        \* position of the for loop in keys (1-based)
    tol_pct,    \* the tolerance fraction in use, in ten-thousandths
    results,    \* the summary under construction
    passed,     \* the params argument reconcile_oriental received
    response,   \* what the caller got back
    runs,       \* number of the current call on these frames (1 or 2)
    first,      \* the first call: its params and the summary it returned
    request,    \* the request mapping_view serves
    call,       \* a call of one of the helper functions: its name and arguments
    local,      \* the local variables of that call and its position
    ret         \* what that call returned or raised

\* The variables of a reconciliation run, and those of a helper call.
runvars == <<caller, job, dfA, dfB, params, pc, keys, idx, tol_pct, results,
             passed, response, runs, first, request>>
fnvars == <<call, local, ret>>
vars == <<caller, job, dfA, dfB, params, pc, keys, idx, tol_pct, results,
          passed, response, runs, first, request, call, local, ret>>

\* Largest number of rows of a frame of the general input family.
MaxRows == 2

(***************************************************************************)
(* Cell values.  A Gross Premium cell is None, the float NaN (what pandas  *)
(* holds for an empty cell) or a number.                                   *)
(***************************************************************************)
None == [t |-> "None", v |-> 0]
NaN == [t |-> "NaN", v |-> 0]
Num(n) == [t |-> "num", v |-> n]

IsNone(x) == x.t = "None"
IsNum(x) == x.t = "num"

Abs(n) == IF n < 0 THEN -n ELSE n

(***************************************************************************)
(* Text.  A string whose characters matter is a sequence of one-character  *)
(* strings; a raw cell holding text is Str(cs).  The characters are those  *)
(* a string of this module can hold, U+0001 to U+00FF but for U+0060: of   *)
(* these the decimal digits of \d, int() and float() are "0" to "9".  "$"  *)
(* stands for a currency sign: any character that is not a digit, "." or   *)
(* "-" fares the same in _clean_numeric.                                   *)
(***************************************************************************)
Str(cs) == [t |-> "str", s |-> cs]
IsStr(x) == x.t = "str"

\* A number parsed from text: int(s) gives IntNum(n); float(s) gives
\* FloatNum(m, e), the double nearest to the decimal m / 10^e.
IntNum(n) == [t |-> "int", v |-> n]
FloatNum(m, e) == [t |-> "float", m |-> m, e |-> e]

DigitChars == <<"0", "1", "2", "3", "4", "5", "6", "7", "8", "9">>
IsDigit(c) == \E d \in 1..10 : DigitChars[d] = c
DigitVal(c) == (CHOOSE d \in 1..10 : DigitChars[d] = c) - 1

\* The white space of str.strip(): tab, line feed, vertical tab, form feed,
\* carriage return, the four separators U+001C to U+001F, space, next line
\* (U+0085) and no-break space (U+00A0).
WhiteSpace ==
    {" ", "\t", "\n", "\r", "\f", "", "", "", "", "", "", " "}
\* The white space int() and float() take around a number: that of
\* str.strip() but for the four separators.
NumberSpace == WhiteSpace \ {"", "", "", ""}

\* cs without the characters of chars at its two ends
StripChars(cs, chars) ==
    LET Between(kept) ==
            IF kept = {} THEN <<>>
            ELSE SubSeq(cs, CHOOSE i \in kept : \A j \in kept : i <= j,
                            CHOOSE i \in kept : \A j \in kept : j <= i)
    IN  Between({i \in 1..Len(cs) : cs[i] \notin chars})
\* str.strip()
Strip(cs) == StripChars(cs, WhiteSpace)

\* re.sub(r'[^\d\.\-]', '', s): the digits, "." and "-" of s, in order
KeepsCommas(c) == IsDigit(c) \/ c = "." \/ c = "-" \/ c = ","
Keeps(c) == IsDigit(c) \/ c = "." \/ c = "-"

\* The value of the digits of a digit part, most significant first; the
\* underscores between them count for nothing.
RECURSIVE DigitsValue(_)
DigitsValue(ds) ==
    IF ds = <<>> THEN 0
    ELSE IF ds[Len(ds)] = "_" THEN DigitsValue(SubSeq(ds, 1, Len(ds) - 1))
    ELSE DigitsValue(SubSeq(ds, 1, Len(ds) - 1)) * 10 + DigitVal(ds[Len(ds)])

\* The lower-case letters of the characters: "a" to "z" and those of U+00E0
\* to U+00FE, in the order of their capitals.
LowerChars == <<"a", "b", "c", "d", "e", "f", "g", "h", "i", "j", "k", "l", "m",
              "n", "o", "p", "q", "r", "s", "t", "u", "v", "w", "x", "y", "z",
              "à", "á", "â", "ã", "ä", "å", "æ", "ç", "è", "é", "ê", "ë", "ì",
              "í", "î", "ï", "ð", "ñ", "ò", "ó", "ô", "õ", "ö", "ø", "ù", "ú",
              "û", "ü", "ý", "þ">>
\* str.lower(): the capitals "A" to "Z" and those of U+00C0 to U+00DE give
\* their lower-case letter, every other character stays.
Lower(cs) ==
    LET upper == <<"A", "B", "C", "D", "E", "F", "G", "H", "I", "J", "K", "L", "M",
                 "N", "O", "P", "Q", "R", "S", "T", "U", "V", "W", "X", "Y", "Z",
                 "À", "Á", "Â", "Ã", "Ä", "Å", "Æ", "Ç", "È", "É", "Ê", "Ë", "Ì",
                 "Í", "Î", "Ï", "Ð", "Ñ", "Ò", "Ó", "Ô", "Õ", "Ö", "Ø", "Ù", "Ú",
                 "Û", "Ü", "Ý", "Þ">>
    IN  [n \in 1..Len(cs) |->
            IF \E u \in 1..Len(upper) : upper[u] = cs[n]
            THEN LowerChars[CHOOSE u \in 1..Len(upper) : upper[u] = cs[n]]
            ELSE cs[n]]

\* What int() and float() take for digits: digits, with single underscores
\* between two of them.  The empty text passes; the callers say where it may.
DigitPart(s) ==
    \A i \in 1..Len(s) :
        \/ IsDigit(s[i])
        \/ /\ s[i] = "_" /\ 1 < i /\ i < Len(s)
           /\ IsDigit(s[i - 1]) /\ IsDigit(s[i + 1])

\* int() and float() drop the white space around the text and take one sign.
Unsigned(s) ==
    LET Rest(t) == IF t # <<>> /\ Head(t) \in {"-", "+"} THEN Tail(t) ELSE t
    IN  Rest(StripChars(s, NumberSpace))
Sign(s) ==
    LET Of(t) == IF t # <<>> /\ Head(t) = "-" THEN -1 ELSE 1
    IN  Of(StripChars(s, NumberSpace))

\* int(s) succeeds on an optional sign followed by a digit part.
IntParses(s) == Unsigned(s) # <<>> /\ DigitPart(Unsigned(s))

\* The parts of a decimal literal behind its sign: the text before the first
\* "e" or "E" split at its first ".", and the exponent behind that letter.
FloatParts(s) ==
    LET Cut(t, cs) == CHOOSE i \in 1..(Len(t) + 1) :
                          /\ i <= Len(t) => t[i] \in cs
                          /\ \A j \in 1..(i - 1) : t[j] \notin cs
        At(t, i) == [head |-> SubSeq(t, 1, i - 1),
                     tail |-> SubSeq(t, i + 1, Len(t)),
                     cut |-> i <= Len(t)]
        Split(t, cs) == At(t, Cut(t, cs))
        Parts(mantissa, halves) ==
            [whole |-> halves.head, frac |-> halves.tail,
             has_exp |-> mantissa.cut, exp |-> mantissa.tail]
        Halved(mantissa) == Parts(mantissa, Split(mantissa.head, {"."}))
    IN  Halved(Split(Unsigned(s), {"e", "E"}))

\* float(s) succeeds on an optional sign followed by "inf", "infinity" or
\* "nan" in either case, or by digit parts around at most one ".", one digit
\* at least, and then, if any, an exponent: "e" or "E", an optional sign and
\* a digit part.
FloatParses(s) ==
    LET Literal(p) ==
            /\ DigitPart(p.whole) /\ DigitPart(p.frac)
            /\ Len(p.whole) + Len(p.frac) > 0
            /\ p.has_exp => StripChars(p.exp, NumberSpace) = p.exp /\ IntParses(p.exp)
    IN  \/ Lower(Unsigned(s)) \in {<<"i", "n", "f">>, <<"n", "a", "n">>,
                                   <<"i", "n", "f", "i", "n", "i", "t", "y">>}
        \/ Literal(FloatParts(s))

\* FloatNum(m, e) written one way: a fraction without its trailing zeros, a
\* whole number with e = 0 as far as the integers of the checker reach
\* (below 2^31), with the largest m they hold beyond.
RECURSIVE Reduce(_, _)
Reduce(m, e) ==
    IF m = 0 THEN FloatNum(0, 0)
    ELSE IF e > 0 /\ m % 10 = 0 THEN Reduce(m \div 10, e - 1)
    ELSE IF e < 0 /\ m <= 214748364 /\ -m <= 214748364 THEN Reduce(m * 10, e + 1)
    ELSE FloatNum(m, e)

\* float(s) where it succeeds: NaN, an infinity with its sign, or
\* FloatNum(m, e), the double nearest to m / 10^e.  A zero is the number 0
\* under either sign.
FloatOf(s) ==
    LET Value(p, low, sign) ==
            IF low = <<"n", "a", "n">> THEN NaN
            ELSE IF low \in {<<"i", "n", "f">>, <<"i", "n", "f", "i", "n", "i", "t", "y">>}
                 THEN [t |-> "inf", v |-> sign]
            ELSE Reduce(sign * DigitsValue(p.whole \o p.frac),
                        Len(SelectSeq(p.frac, IsDigit))
                        - (IF p.has_exp THEN Sign(p.exp) * DigitsValue(Unsigned(p.exp))
                           ELSE 0))
    IN  Value(FloatParts(s), Lower(Unsigned(s)), Sign(s))

\* _clean_numeric on text: strip, keep digits "." and "-"; nothing, "." or "-"
\* left is None; float(s) when s holds a ".", int(s) otherwise; when that
\* raises, float(s) is tried and None is returned when it raises too.
\* None stays None; an int or float (NaN is a float) is returned as it is.
_clean_numeric(x) ==
    IF IsNone(x) THEN None
    ELSE IF ~IsStr(x) THEN x
    ELSE LET s == SelectSeq(Strip(x.s), Keeps) IN
         IF s \in {<<>>, <<".">>, <<"-">>} THEN None
         ELSE IF (\A i \in 1..Len(s) : s[i] # ".") /\ IntParses(s)
              THEN IntNum(Sign(s) * DigitsValue(Unsigned(s)))
         ELSE IF FloatParses(s) THEN FloatOf(s)
         ELSE None

(***************************************************************************)
(* Data frames: two columns, the one that holds policy identifiers and the *)
(* one that holds premiums, under whatever headers they bear.              *)
(***************************************************************************)
key == "Policy Number"
prem == "Gross Premium"

\* `c in df.columns`
HasColumnAssumesKey(df, c) == c = "Policy Number" \/ c \in {df.key_col, df.prem_col}
HasColumn(df, c) == c \in {df.key_col, df.prem_col}

\* The cell of row r in column c.
Cell(df, c, r) == IF c = df.prem_col THEN r.prem ELSE r.key

Frame(kc, pcol, rows) == [key_col |-> kc, prem_col |-> pcol, rows |-> rows]

(***************************************************************************)
(* The params argument: None, or a dict over the six parameter names.      *)
(* keys is the set of names the dict holds; a field whose name is not in   *)
(* keys is not part of the dict.                                           *)
(***************************************************************************)
ParamNames == {"keywords", "enforce_b_unique", "use_references",
               "amount_tolerance", "date_window", "fuzzy_pct"}

Params(isNone, names, tol, dw, fz, ebu, ur, kw) ==
    [none |-> isNone, keys |-> names, amount_tolerance |-> tol,
     date_window |-> dw, fuzzy_pct |-> fz, enforce_b_unique |-> ebu,
     use_references |-> ur, keywords |-> kw]

NoParams == Params(TRUE, {}, 0, 0, 0, FALSE, FALSE, <<>>)

\* `if params:` is false for None and for the empty dict.
Truthy(p) == ~p.none /\ p.keys # {}

\* tol_pct = 0.01; if params: tol_pct = float(params.get("amount_tolerance", 1.0))/100.0
\* The fraction is held in ten-thousandths: 0.01 is 100, t/100.0 is (t * 10000) \div 100.
TolPctNoDivision(p) ==
    IF ~Truthy(p) THEN 100
    ELSE IF "amount_tolerance" \in p.keys THEN p.amount_tolerance * 10000
    ELSE 1 * 10000
TolPctFromFuzzy(p) ==
    IF ~Truthy(p) THEN 100
    ELSE IF "fuzzy_pct" \in p.keys THEN (p.fuzzy_pct * 10000) \div 100
    ELSE (1 * 10000) \div 100
TolPct(p) ==
    IF ~Truthy(p) THEN 100
    ELSE IF "amount_tolerance" \in p.keys THEN (p.amount_tolerance * 10000) \div 100
    ELSE (1 * 10000) \div 100

(***************************************************************************)
(* The matcher, reconcile_oriental.                                        *)
(***************************************************************************)
EmptyResults ==
    [matches |-> 0, mismatches |-> 0, missing_in_A |-> 0, missing_in_B |-> 0,
     diffs |-> <<>>]

\* set(df[key].astype(str)) if key in df.columns else set()
KeySet(df) ==
    IF HasColumn(df, key)
    THEN {Cell(df, key, df.rows[i]) : i \in 1..Len(df.rows)}
    ELSE {}

\* Ascending string order of the texts the model has in an identifier column.
KeyOrder == <<" P1", "1", "2", "P1", "P2", "P3", "unspecified">>

\* sorted(S)
SortedDescending(S) ==
    LET up == SelectSeq(KeyOrder, LAMBDA k : k \in S)
    IN  [n \in 1..Len(up) |-> up[Len(up) + 1 - n]]
Sorted(S) == SelectSeq(KeyOrder, LAMBDA k : k \in S)

\* df[df.get(key, "") == k] if key in df.columns else None
RowsFor(df, k) ==
    IF HasColumn(df, key)
    THEN [none |-> FALSE, rows |-> SelectSeq(df.rows, LAMBDA r : Cell(df, key, r) = k)]
    ELSE [none |-> TRUE, rows |-> <<>>]

\* `row is None or row.empty`
NoRows(sel) == sel.none \/ sel.rows = <<>>

\* _clean_numeric(row.iloc[0].get(prem)) if (row is not None and not row.empty
\*                                           and prem in row.columns) else None
PremiumLastRow(df, sel) ==
    IF ~NoRows(sel) /\ HasColumn(df, prem)
    THEN _clean_numeric(Cell(df, prem, sel.rows[Len(sel.rows)]))
    ELSE None
Premium(df, sel) ==
    IF ~NoRows(sel) /\ HasColumn(df, prem)
    THEN _clean_numeric(Cell(df, prem, sel.rows[1]))
    ELSE None

(***************************************************************************)
(* Binary floating point.  pa, pb and tol_pct are doubles, and line 138    *)
(* computes with them: a double is m * 2^e with a mantissa m of 53 bits,   *)
(* and every operation returns the double nearest to the exact result,     *)
(* ties going to the even mantissa.  A mantissa, and any natural number    *)
(* too wide for one integer, is the sequence of its digits in base 2^15,   *)
(* lowest first, without leading zeros.                                    *)
(***************************************************************************)
Base == 32768

RECURSIVE Limbs(_)
Limbs(n) == IF n = 0 THEN <<>> ELSE <<n % Base>> \o Limbs(n \div Base)

RECURSIVE Trim(_)
Trim(n) == IF n # <<>> /\ n[Len(n)] = 0 THEN Trim(SubSeq(n, 1, Len(n) - 1)) ELSE n

\* m + n + carry
RECURSIVE Add(_, _, _)
Add(m, n, carry) ==
    IF m = <<>> /\ n = <<>> THEN Limbs(carry)
    ELSE LET t == (IF m = <<>> THEN 0 ELSE Head(m)) + (IF n = <<>> THEN 0 ELSE Head(n)) + carry
         IN  <<t % Base>> \o Add(IF m = <<>> THEN m ELSE Tail(m),
                                 IF n = <<>> THEN n ELSE Tail(n), t \div Base)

\* m - n - borrow, for m >= n
RECURSIVE Sub(_, _, _)
Sub(m, n, borrow) ==
    IF m = <<>> THEN <<>>
    ELSE LET t == Head(m) - (IF n = <<>> THEN 0 ELSE Head(n)) - borrow
         IN  <<(t + Base) % Base>> \o Sub(Tail(m), IF n = <<>> THEN n ELSE Tail(n),
                                          IF t < 0 THEN 1 ELSE 0)

\* m < n
RECURSIVE Less(_, _)
Less(m, n) ==
    IF Len(m) # Len(n) THEN Len(m) < Len(n)
    ELSE IF m = <<>> THEN FALSE
    ELSE IF m[Len(m)] # n[Len(n)] THEN m[Len(m)] < n[Len(n)]
    ELSE Less(SubSeq(m, 1, Len(m) - 1), SubSeq(n, 1, Len(n) - 1))

\* m * c + carry, for c and carry below Base
RECURSIVE MulSmall(_, _, _)
MulSmall(m, c, carry) ==
    IF m = <<>> THEN Limbs(carry)
    ELSE LET t == Head(m) * c + carry
         IN  <<t % Base>> \o MulSmall(Tail(m), c, t \div Base)

\* m * n
RECURSIVE Mul(_, _)
Mul(m, n) ==
    IF n = <<>> THEN <<>>
    ELSE Add(MulSmall(m, Head(n), 0), <<0>> \o Mul(m, Tail(n)), 0)

\* m \div q and m % q, for q below Base: h is the result for the digits above lo
DivStep(h, lo, q) ==
    [quot |-> <<(h.rem * Base + lo) \div q>> \o h.quot, rem |-> (h.rem * Base + lo) % q]
RECURSIVE DivSmall(_, _)
DivSmall(m, q) ==
    IF m = <<>> THEN [quot |-> <<>>, rem |-> 0]
    ELSE DivStep(DivSmall(Tail(m), q), Head(m), q)

\* The number of bits of m.
RECURSIVE Bits(_)
Bits(n) == IF n = 0 THEN 0 ELSE 1 + Bits(n \div 2)
BitLen(m) == IF m = <<>> THEN 0 ELSE 15 * (Len(m) - 1) + Bits(m[Len(m)])

\* m * 2^j and m \div 2^j
ShiftLeft(m, j) == [i \in 1..(j \div 15) |-> 0] \o MulSmall(m, 2 ^ (j % 15), 0)
ShiftRight(m, j) ==
    IF j \div 15 >= Len(m) THEN <<>>
    ELSE Trim(DivSmall(SubSeq(m, j \div 15 + 1, Len(m)), 2 ^ (j % 15)).quot)

\* The double nearest to n * 2^e, n being a natural number cut off from a
\* number that had more below it when sticky is true.  q2 is n without its
\* s - 1 lowest bits: its last bit is the first bit that is dropped.
Double(m, e) == [m |-> m, e |-> e]
RoundOff(n, e, s, sticky, q2) ==
    LET m0 == ShiftRight(q2, 1)
        up == /\ Head(q2) % 2 = 1
              /\ (sticky \/ ShiftLeft(q2, s - 1) # n \/ Head(m0) % 2 = 1)
        m1 == IF up THEN Trim(Add(m0, <<1>>, 0)) ELSE m0
    IN  IF BitLen(m1) > 53 THEN Double(ShiftRight(m1, 1), e + s + 1) ELSE Double(m1, e + s)
Round(n, e, sticky) ==
    IF n = <<>> THEN Double(<<>>, 0)
    ELSE IF BitLen(n) <= 53 THEN Double(ShiftLeft(n, 53 - BitLen(n)), e - (53 - BitLen(n)))
    ELSE RoundOff(n, e, BitLen(n) - 53, sticky, ShiftRight(n, BitLen(n) - 54))

\* The double nearest to n / q, for a natural number n and q below Base:
\* n * 2^75 is divided by q and the quotient rounded.
Float(n, q) ==
    LET d == DivSmall(<<0, 0, 0, 0, 0>> \o Limbs(n), q)
    IN  Round(Trim(d.quot), -75, d.rem # 0)

\* a * b, and abs(a - b) for a and b of the same sign or not, a and b not negative
FloatMul(a, b) == Round(Trim(Mul(a.m, b.m)), a.e + b.e, FALSE)
FloatAbsDiff(a, b, sameSign) ==
    LET e == IF a.e < b.e THEN a.e ELSE b.e
        m == IF a.m = <<>> THEN <<>> ELSE ShiftLeft(a.m, a.e - e)
        n == IF b.m = <<>> THEN <<>> ELSE ShiftLeft(b.m, b.e - e)
    IN  IF ~sameSign THEN Round(Trim(Add(m, n, 0)), e, FALSE)
        ELSE IF Less(m, n) THEN Round(Trim(Sub(n, m, 0)), e, FALSE)
        ELSE Round(Trim(Sub(m, n, 0)), e, FALSE)
\* a <= b
FloatLeq(a, b) ==
    \/ a.m = <<>>
    \/ b.m # <<>> /\ (a.e < b.e \/ (a.e = b.e /\ ~Less(b.m, a.m)))

\* The literal 1e-9: 0x1.12e0be826d695p-30
Floor == Double(<<22165, 20557, 14383, 137>>, -82)

\* pa == pb or (abs(pa - pb) <= max(1e-9, abs(pa) * tol_pct)), for pa and pb
\* that are not None.  Num(n) is the double nearest to n / 100, and tol_pct
\* the double nearest to tol / 10000: 0.01, or float(t) / 100.0 for a whole
\* percentage t; max(1e-9, x) is x when 1e-9 <= x and 1e-9 otherwise, as it
\* is when tol_pct is negative.  Every comparison with NaN is false.  a and
\* b are abs(pa) and abs(pb), d is abs(pa - pb) and x is abs(pa) * tol_pct.
WithinTolerance(pa, pb, tol) ==
    /\ IsNum(pa) /\ IsNum(pb)
    /\ \/ pa.v = pb.v
       \/ \E a \in {Float(Abs(pa.v), 100)}, b \in {Float(Abs(pb.v), 100)} :
             \E d \in {FloatAbsDiff(a, b, (pa.v < 0) = (pb.v < 0))},
                x \in {IF tol < 0 THEN Floor ELSE FloatMul(a, Float(tol, 10000))} :
                FloatLeq(d, IF FloatLeq(Floor, x) THEN x ELSE Floor)

\* The branch the loop body takes for key k.
BranchSwapped(A, B, k, tol) ==
    LET rowa == RowsFor(A, k)
        rowb == RowsFor(B, k)
        pa == Premium(A, rowa)
        pb == Premium(B, rowb)
    IN  IF NoRows(rowa) /\ ~NoRows(rowb) THEN "missing_in_B"
        ELSE IF NoRows(rowb) /\ ~NoRows(rowa) THEN "missing_in_A"
        ELSE IF IsNone(pa) /\ IsNone(pb) THEN "skip"
        ELSE IF ~IsNone(pa) /\ ~IsNone(pb)
             THEN IF WithinTolerance(pa, pb, tol) THEN "match" ELSE "mismatch"
        ELSE "mismatch_null"
Branch(A, B, k, tol) ==
    LET rowa == RowsFor(A, k)
        rowb == RowsFor(B, k)
        pa == Premium(A, rowa)
        pb == Premium(B, rowb)
    IN  IF NoRows(rowa) /\ ~NoRows(rowb) THEN "missing_in_A"
        ELSE IF NoRows(rowb) /\ ~NoRows(rowa) THEN "missing_in_B"
        ELSE IF IsNone(pa) /\ IsNone(pb) THEN "skip"
        ELSE IF ~IsNone(pa) /\ ~IsNone(pb)
             THEN IF WithinTolerance(pa, pb, tol) THEN "match" ELSE "mismatch"
        ELSE "mismatch_null"

\* One pass of the loop body: the summary after key k.  A diff is
\* {"policy": k, "a": pa, "b": pb}.
LoopBody(res, A, B, k, tol) ==
    LET br == Branch(A, B, k, tol)
    IN  CASE br = "missing_in_A" -> [res EXCEPT !.missing_in_A = @ + 1]
          [] br = "missing_in_B" -> [res EXCEPT !.missing_in_B = @ + 1]
          [] br = "skip" -> res
          [] br = "match" -> [res EXCEPT !.matches = @ + 1]
          [] OTHER -> [res EXCEPT !.mismatches = @ + 1,
                                  !.diffs = Append(@, [policy |-> k,
                                                       a |-> Premium(A, RowsFor(A, k)),
                                                       b |-> Premium(B, RowsFor(B, k))])]

RECURSIVE Loop(_, _, _, _, _, _)
Loop(res, ks, i, A, B, tol) ==
    IF i > Len(ks) THEN res
    ELSE Loop(LoopBody(res, A, B, ks[i], tol), ks, i + 1, A, B, tol)

reconcile_oriental(A, B, p) ==
    Loop(EmptyResults, Sorted(KeySet(A) \cup KeySet(B)), 1, A, B, TolPct(p))

\* reconcile_generic hands its params on: reconcile_oriental(dfA, dfB, params=params)
GenericForwardsNothing(p) == NoParams
GenericForwards(p) == p

reconcile_generic(A, B, p) == reconcile_oriental(A, B, GenericForwards(p))

(***************************************************************************)
(* The dispatcher, run_reconcile_by_bank.                                  *)
(***************************************************************************)
\* str.upper() on the bank identifiers above.
Upper(s) ==
    CASE s \in {"ORIENTAL", "Oriental", "oriental"} -> "ORIENTAL"
      [] s \in {"MAGMA", "Magma"} -> "MAGMA"
      [] s \in {"RSA", "rsa"} -> "RSA"
      [] s \in {"ICICI", "icici"} -> "ICICI"
      [] OTHER -> s

Job(isJob, hasCompany, bank, n) ==
    [present |-> isJob, has_company |-> hasCompany, bank_identifier |-> bank,
     nfiles |-> n, status |-> "PENDING", has_summary |-> FALSE,
     summary |-> EmptyResults]

\* bank = job.company.bank_identifier if job and job.company else "GENERIC"
BankOf(j) ==
    IF j.present /\ j.has_company THEN j.bank_identifier ELSE "GENERIC"

run_reconcile_by_bank(j, A, B, p) ==
    IF Upper(BankOf(j)) = "ORIENTAL" THEN reconcile_oriental(A, B, p)
    ELSE IF Upper(BankOf(j)) = "MAGMA" THEN reconcile_generic(A, B, p)
    ELSE IF Upper(BankOf(j)) = "RSA" THEN reconcile_generic(A, B, p)
    ELSE IF Upper(BankOf(j)) = "ICICI" THEN reconcile_generic(A, B, p)
    ELSE reconcile_generic(A, B, p)

(***************************************************************************)
(* The params dict mapping_advanced_view builds from the posted form.      *)
(* post.fields is the set of form fields the request carries; what a field *)
(* carries is text, a sequence of characters, the two check boxes apart.   *)
(***************************************************************************)
Post(fields, tol, dw, fz, ebu, ur, kw) ==
    [fields |-> fields, amount_tolerance |-> tol, date_window |-> dw,
     fuzzy_pct |-> fz, enforce_b_unique |-> ebu, use_references |-> ur,
     keywords |-> kw]

\* float(amount_tolerance), int(date_window) and int(fuzzy_pct) of lines
\* 567-569 raise ValueError on text that is no number of theirs; keywords
\* are stripped.  A float that is a whole number is handed on as that
\* number, which is what the matcher of this model takes for a percentage;
\* any other stays the float it is.
AdvancedParams(post) ==
    LET amount_tolerance == IF "amount_tolerance" \in post.fields
                            THEN post.amount_tolerance ELSE <<"1">>
        date_window == IF "date_window" \in post.fields
                       THEN post.date_window ELSE <<"7">>
        fuzzy_pct == IF "fuzzy_pct" \in post.fields
                     THEN post.fuzzy_pct ELSE <<"8", "0">>
        int(s) == Sign(s) * DigitsValue(Unsigned(s))
        float(f) == IF f.t = "float" /\ f.e = 0 THEN f.m ELSE f
    IN  IF \/ ~FloatParses(amount_tolerance)
           \/ ~IntParses(date_window)
           \/ ~IntParses(fuzzy_pct)
        THEN [raised |-> "ValueError"]
        ELSE Params(FALSE, ParamNames,
                    float(FloatOf(amount_tolerance)),
                    int(date_window),
                    int(fuzzy_pct),
                    "enforce_b_unique" \in post.fields /\ post.enforce_b_unique = "on",
                    "use_references" \in post.fields /\ post.use_references = "on",
                    IF "keywords" \in post.fields THEN Strip(post.keywords) ELSE <<>>)

\* `len(files) < 2`: the views' guard
TooFewFilesOffByOne(j) == j.nfiles < 1
TooFewFiles(j) == j.nfiles < 2

(***************************************************************************)
(* apply_mapping_to_df(df, mapping).  A frame here is its list of column   *)
(* headers with the cells of one data row; the mapping is a dict, that is, *)
(* its entries in insertion order with distinct keys.                      *)
(***************************************************************************)
NFrame(cols, cells) == [columns |-> cols, cells |-> cells]
Entry(orig, std) == [orig |-> orig, std |-> std]

\* s.strip().lower() for the headers and mapping keys in use
StripLower(s) ==
    CASE s \in {"Policy No", "POLICY NO", " policy no "} -> "policy no"
      [] s \in {"Premium", "premium"} -> "premium"
      [] s \in {"Amount", "amount"} -> "amount"
      [] s = "Policy Number" -> "policy number"
      [] s = "Gross Premium" -> "gross premium"
      [] s = "GST" -> "gst"
      [] s = "Other" -> "other"

\* matches = [c for c in df.columns if c.strip().lower() == orig.strip().lower()]
Matches(columns, orig) ==
    SelectSeq(columns, LAMBDA c : StripLower(c) = StripLower(orig))

\* matches[0]
LastMatch(ms) == ms[Len(ms)]
FirstMatch(ms) == ms[1]

\* rename_map, a dict, as its set of (column, std) items
SetItem(rm, c, std) == {p \in rm : p[1] # c} \cup {<<c, std>>}
HasItem(rm, c) == \E p \in rm : p[1] = c
GetItem(rm, c) == (CHOOSE p \in rm : p[1] = c)[2]

\* df.rename(columns=rename_map): every column found in the dict takes the
\* name the dict gives it; nothing else changes, and no column is dropped or
\* merged.
RenameDropsOthers(columns, rm) ==
    [j \in 1..Cardinality({i \in 1..Len(columns) : HasItem(rm, columns[i])}) |->
        GetItem(rm, SelectSeq(columns, LAMBDA c : HasItem(rm, c))[j])]
Rename(columns, rm) ==
    [j \in 1..Len(columns) |->
        IF HasItem(rm, columns[j]) THEN GetItem(rm, columns[j]) ELSE columns[j]]

\* The canonical fields whose cells are coerced, and by what.
Coerced == {"Gross Premium", "Brokerage Amount", "Policy Number", "Policy Start Date"}
DuplicatedCoerced(columns) ==
    \E i, j \in 1..Len(columns) : i # j /\ columns[i] = columns[j] /\ columns[i] \in Coerced

\* _clean_text: "" for None, str(x).strip() otherwise (str(nan) is "nan")
_clean_text(x) ==
    CASE IsNone(x) -> Str(<<>>)
      [] IsStr(x) -> Str(Strip(x.s))
      [] x.t = "NaN" -> Str(<<"n", "a", "n">>)

\* _parse_date: None for None and for the empty string; otherwise what
\* dateparser.parse(str(x)) returns, and None when it raises.  The parser is
\* dateutil's and is left unread here: parse says which of the two it did,
\* "date" or "raises".
_parse_date(x, parse) ==
    IF IsNone(x) THEN None
    ELSE IF IsStr(x) /\ x.s = <<>> THEN None
    ELSE IF parse = "raises" THEN None
    ELSE [t |-> "date", of |-> x]

CoerceCell(c, x, parse) ==
    CASE c \in {"Gross Premium", "Brokerage Amount"} -> _clean_numeric(x)
      [] c = "Policy Number" -> _clean_text(x)
      [] c = "Policy Start Date" -> _parse_date(x, parse)
      [] OTHER -> x

\* What a cell of a column is after df[c] = df[c].apply(f) when two columns
\* bear the name c and the assignment goes through: f was handed a whole
\* column, not a cell.
CoerceCells(columns, cells, parse) ==
    [j \in 1..Len(columns) |->
        IF columns[j] \in Coerced /\ \E o \in 1..Len(columns) : o # j /\ columns[o] = columns[j]
        THEN [t |-> "unspecified", v |-> 0]
        ELSE CoerceCell(columns[j], cells[j], parse)]

\* The loop of lines 77-83: rename_map after the entries of mapping, in order.
RECURSIVE RenameMap(_, _, _)
RenameMap(columns, mapping, rm) ==
    IF mapping = <<>> THEN rm
    ELSE RenameMap(columns, Tail(mapping),
                   IF Head(mapping).std # "" /\ Matches(columns, Head(mapping).orig) # <<>>
                   THEN SetItem(rm, FirstMatch(Matches(columns, Head(mapping).orig)),
                                Head(mapping).std)
                   ELSE rm)

\* A row of a frame holds its identifier cell by the name of the cell's
\* text, str(cell): the characters of a name, and the name of a cell.
KeyText(k) ==
    CASE k = "P1" -> <<"P", "1">>
      [] k = "P2" -> <<"P", "2">>
      [] k = "P3" -> <<"P", "3">>
      [] k = " P1" -> <<" ", "P", "1">>
      [] k = "1" -> <<"1">>
      [] k = "2" -> <<"2">>
KeyName(x) ==
    LET text == IF IsStr(x) THEN x.s ELSE <<DigitChars[x.v + 1]>>
    IN  IF IsStr(x) \/ x.t = "int"
        THEN CHOOSE k \in {"P1", "P2", "P3", " P1", "1", "2"} : KeyText(k) = text
        ELSE "unspecified"

\* apply_mapping_to_df on a frame of the matcher, whose two columns hold
\* text and amounts: the columns renamed, every column coerced.  No cell of
\* these frames is sent to Policy Start Date.  Series.apply infers the type
\* of the column it returns: where _clean_numeric left a number or a NaN in
\* the amounts, the column is one of floats and its None are NaN; a column
\* of nothing but None keeps them.
apply_mapping_to_df(df, mapping) ==
    LET Typed(columns, cells) ==
            LET floats == /\ columns[2] \in {"Gross Premium", "Brokerage Amount"}
                          /\ columns[1] # columns[2]
                          /\ \E i \in 1..Len(cells) : ~IsNone(cells[i][2])
            IN  [key_col |-> columns[1], prem_col |-> columns[2],
                 rows |-> [i \in 1..Len(cells) |->
                              [key |-> KeyName(cells[i][1]),
                               prem |-> IF floats /\ IsNone(cells[i][2])
                                        THEN NaN ELSE cells[i][2]]]]
        Cleaned(columns) ==
            Typed(columns, [i \in 1..Len(df.rows) |->
                               CoerceCells(columns, <<Str(KeyText(df.rows[i].key)),
                                                      df.rows[i].prem>>, "date")])
    IN  Cleaned(Rename(<<df.key_col, df.prem_col>>,
                       RenameMap(<<df.key_col, df.prem_col>>, mapping, {})))

\* The request mapping_view serves: its method and mappingAtoB, the dict
\* lines 476-484 read from the posted form (column of A -> stripped value).
Request(method, mappingAtoB) == [method |-> method, mapping |-> mappingAtoB]

\* {k: mappingAtoB.get(k, "") for k in colsA}
MappingA(df, mappingAtoB) ==
    [j \in 1..2 |->
        LET k == <<df.key_col, df.prem_col>>[j]
        IN  Entry(k, IF \E n \in 1..Len(mappingAtoB) : mappingAtoB[n].orig = k
                     THEN mappingAtoB[CHOOSE n \in 1..Len(mappingAtoB) :
                                          mappingAtoB[n].orig = k].std
                     ELSE "")]

\* mapping_for_B[b_col] = b_col for every b_col of mappingAtoB that is not empty
RECURSIVE MappingForB(_)
MappingForB(mappingAtoB) ==
    IF mappingAtoB = <<>> THEN <<>>
    ELSE LET m == MappingForB(SubSeq(mappingAtoB, 1, Len(mappingAtoB) - 1))
             b_col == mappingAtoB[Len(mappingAtoB)].std
         IN  IF b_col = "" \/ \E n \in 1..Len(m) : m[n].orig = b_col
             THEN m
             ELSE Append(m, Entry(b_col, b_col))

\* The two calls of lines 499-504 raise when one of them does.
NormalizeRaises(A, B, mappingAtoB) ==
    \/ DuplicatedCoerced(<<apply_mapping_to_df(A, MappingA(A, mappingAtoB)).key_col,
                           apply_mapping_to_df(A, MappingA(A, mappingAtoB)).prem_col>>)
    \/ DuplicatedCoerced(<<apply_mapping_to_df(B, MappingForB(mappingAtoB)).key_col,
                           apply_mapping_to_df(B, MappingForB(mappingAtoB)).prem_col>>)

(***************************************************************************)
(* Inputs.                                                                 *)
(***************************************************************************)
SeqsUpTo(S, n) == UNION {[1..m -> S] : m \in 0..n}

Row(k, p) == [key |-> k, prem |-> p]


\* Tolerance family: one row a side, the same key, premiums around the bounds.
CellsWide ==
    {None, NaN} \cup {Num(n) : n \in {0, 1, 100, 101, 10000, 10100, 10101, -10000}}
OtherSettings ==
    {Post(ParamNames, <<"0">>, <<"7">>, <<"8", "0">>, "", "", <<>>),
     Post(ParamNames, <<"0">>, <<"\t", "3", "0">>, <<"9", "5", "\n">>, "on", "on",
          <<"\t", "k", "w", " ">>)}
ParamsSet ==
    {NoParams, Params(FALSE, {}, 0, 0, 0, FALSE, FALSE, <<>>)} \cup
    {Params(FALSE, {"amount_tolerance"}, t, 0, 0, FALSE, FALSE, <<>>) : t \in {0, 1, 2, 5}} \cup
    {[AdvancedParams(o) EXCEPT !.keys = ParamNames \ {"amount_tolerance"},
                               !.amount_tolerance = 0] : o \in OtherSettings} \cup
    {AdvancedParams(Post({}, <<>>, <<>>, <<>>, "", "", <<>>))} \cup
    {AdvancedParams([o EXCEPT !.amount_tolerance = <<DigitChars[t + 1]>>]) :
        o \in OtherSettings, t \in {0, 1, 2, 5}}

\* Column family: the identifier and premium columns under canonical or
\* other headers, as the files have them, and what the form may post for the
\* two columns of A.  The premium column is never sent to Policy Number.
FramesSmall ==
    {Frame(kc, pcol, rs) : kc \in {"Policy Number", "Policy No"},
                           pcol \in {"Gross Premium", "Premium"},
                           rs \in SeqsUpTo({Row(" P1", Num(10000)), Row("P2", None)}, 1)}
Posted(df) ==
    {<<Entry(df.key_col, k), Entry(df.prem_col, v)>> :
        k \in {"", "Policy Number", "Gross Premium"}, v \in {"", "Gross Premium"}}

\* The frames of a job whose files were never read.
NoFrame == Frame("", "", <<>>)

\* No helper function is being called.
NoReturn == [status |-> "none"]

InitRun ==
    /\ pc = "request"
    /\ keys = <<>> /\ idx = 0 /\ tol_pct = 0
    /\ results = EmptyResults /\ passed = NoParams
    /\ response = "" /\ runs = 1
    /\ first = [params |-> NoParams, results |-> EmptyResults]
    /\ call = [fn |-> ""] /\ local = [at |-> ""] /\ ret = NoReturn

\* General family: frames of up to MaxRows rows under the canonical headers,
\* which the form sends to themselves.
InitGeneral ==
    /\ caller = "mapping_view"
    /\ request = Request("POST", <<Entry(key, key), Entry(prem, prem)>>)
    /\ job = Job(TRUE, TRUE, "GENERIC", 2)
    /\ dfA \in {Frame(key, prem, rs) :
                    rs \in SeqsUpTo({Row("P1", p) : p \in {None, Num(10000), Num(5000)}}
                                    \cup {Row("P2", p) : p \in {None, Num(5000)}}, MaxRows)}
    /\ dfB \in {Frame(key, prem, rs) :
                    rs \in SeqsUpTo({Row(k, p) : k \in {"P1", "P2"},
                                                 p \in {NaN, Num(10000), Num(7500)}}
                                    \cup {Row("P3", Num(7500))}, MaxRows)}
    /\ params = NoParams

InitColumns ==
    /\ caller = "mapping_view"
    /\ job = Job(TRUE, TRUE, "Oriental", 2)
    /\ dfA \in FramesSmall /\ dfB \in FramesSmall
    /\ \E m \in Posted(dfA) : request = Request("POST", m)
    /\ params = NoParams

InitFiles ==
    /\ \/ /\ caller = "mapping_view"
          /\ job \in {Job(TRUE, TRUE, "GENERIC", n) : n \in 0..1}
          /\ request \in {Request("GET", <<>>), Request("POST", <<>>)}
          /\ dfA = NoFrame /\ dfB = NoFrame
       \/ /\ caller = "mapping_view"
          /\ job = Job(TRUE, TRUE, "GENERIC", 2)
          /\ request = Request("GET", <<>>)
          /\ dfA \in FramesSmall /\ dfB \in FramesSmall
       \/ /\ caller = "mapping_advanced_view"
          /\ job \in {Job(TRUE, TRUE, "GENERIC", n) : n \in 0..2}
          /\ request = Request("", <<>>)
          /\ dfA = NoFrame /\ dfB = NoFrame
    /\ params = NoParams

InitTolerance ==
    /\ caller = "direct" /\ request = Request("", <<>>)
    /\ job = Job(TRUE, TRUE, "GENERIC", 2)
    /\ dfA \in {Frame(key, prem, <<Row("P1", a)>>) : a \in CellsWide}
    /\ dfB \in {Frame(key, prem, <<Row("P1", b)>>) : b \in CellsWide}
    /\ params \in ParamsSet

\* Dispatch family: every kind of job, a few frames.
InitDispatch ==
    /\ caller = "direct" /\ request = Request("", <<>>)
    /\ job \in {Job(FALSE, FALSE, "", 0), Job(TRUE, FALSE, "", 2)} \cup
               {Job(TRUE, TRUE, b, 2) :
                   b \in {"ORIENTAL", "Oriental", "oriental", "MAGMA", "Magma", "RSA",
                          "rsa", "ICICI", "icici", "GENERIC", "HDFC", ""}}
    /\ dfA = Frame(key, prem, <<Row("P1", Num(10000)), Row("P2", Num(5000))>>)
    /\ dfB \in {Frame(key, prem, <<Row("P1", Num(10100))>>),
                Frame(key, prem, <<Row("P1", Num(10101)), Row("P3", NaN)>>)}
    /\ params \in {NoParams,
                   AdvancedParams(Post(ParamNames, <<"0">>, <<"7">>, <<"8", "0">>, "", "", <<>>)),
                   AdvancedParams(Post(ParamNames, <<"5">>, <<"7">>, <<"8", "0">>, "", "", <<>>))}

Init ==
    /\ InitRun
    /\ InitGeneral \/ InitColumns \/ InitFiles \/ InitTolerance \/ InitDispatch

(***************************************************************************)
(* The views.                                                              *)
(***************************************************************************)
\* mapping_view, fewer than two files: messages.error and redirect
MappingViewTooFewFiles ==
    /\ pc = "request" /\ caller = "mapping_view"
    /\ TooFewFiles(job)
    /\ response' = "error_redirect"
    /\ pc' = "done"
    /\ UNCHANGED <<fnvars, request, caller, job, dfA, dfB, params, keys, idx, tol_pct, results,
                   passed, runs, first>>

\* mapping_view, two files, any method but POST: the frames are read, the
\* suggestions computed and mapping.html rendered; nothing is saved
MappingViewGet ==
    /\ pc = "request" /\ caller = "mapping_view"
    /\ ~TooFewFiles(job)
    /\ request.method # "POST"
    /\ response' = "mapping_page"
    /\ pc' = "done"
    /\ UNCHANGED <<fnvars, request, caller, job, dfA, dfB, params, keys, idx, tol_pct, results,
                   passed, runs, first>>

\* mapping_view, POST: the mapping is saved and the job is MAPPED
MappingViewPost ==
    /\ pc = "request" /\ caller = "mapping_view"
    /\ ~TooFewFiles(job)
    /\ request.method = "POST"
    /\ job' = [job EXCEPT !.status = "MAPPED"]
    /\ pc' = "normalize"
    /\ UNCHANGED <<fnvars, request, caller, dfA, dfB, params, keys, idx, tol_pct, results,
                   passed, response, runs, first>>

\* mapping_view, lines 499-506: the two frames are normalized and the
\* dispatcher is called without params
MappingViewNormalize ==
    /\ pc = "normalize"
    /\ dfA' = apply_mapping_to_df(dfA, MappingA(dfA, request.mapping))
    /\ dfB' = apply_mapping_to_df(dfB, MappingForB(request.mapping))
    /\ params' = NoParams
    /\ pc' = "dispatch"
    /\ UNCHANGED <<fnvars, request, caller, job, keys, idx, tol_pct, results, passed,
                   response, runs, first>>

\* mapping_view, lines 499-504: pandas raises on a frame two of whose
\* columns bear the same coerced name; the job stays MAPPED, without summary
MappingViewNormalizeRaises ==
    /\ pc = "normalize"
    /\ NormalizeRaises(dfA, dfB, request.mapping)
    /\ response' = "ValueError"
    /\ pc' = "done"
    /\ UNCHANGED <<fnvars, request, caller, job, dfA, dfB, params, keys, idx, tol_pct, results,
                   passed, runs, first>>

\* mapping_view, after the dispatcher returned, lines 507-510: the summary is
\* stored with the job.  summary is a JSONField of a SQLite table: a NaN among
\* the diffs is written as the token NaN, which the JSON_VALID check of the
\* column refuses, and job.save() raises IntegrityError; the row keeps what
\* line 496 saved, MAPPED and no summary.
MappingViewStore ==
    /\ pc = "returned" /\ caller = "mapping_view"
    /\ IF \E n \in 1..Len(results.diffs) : NaN \in {results.diffs[n].a, results.diffs[n].b}
       THEN /\ response' = "IntegrityError"
            /\ UNCHANGED job
       ELSE /\ job' = [job EXCEPT !.summary = results, !.has_summary = TRUE,
                                  !.status = "COMPLETED"]
            /\ response' = "dashboard_redirect"
    /\ pc' = "done"
    /\ UNCHANGED <<fnvars, request, caller, dfA, dfB, params, keys, idx, tol_pct, results,
                   passed, runs, first>>

\* mapping_advanced_view, fewer than two files
MappingAdvancedTooFewFiles ==
    /\ pc = "request" /\ caller = "mapping_advanced_view"
    /\ TooFewFiles(job)
    /\ response' = "error_redirect"
    /\ pc' = "done"
    /\ UNCHANGED <<fnvars, request, caller, job, dfA, dfB, params, keys, idx, tol_pct, results,
                   passed, runs, first>>

\* mapping_advanced_view, two files: _read_preview(rfA.file, nrows=5) is a call
\* with a keyword _read_preview(path, ext, max_rows=5) does not take, a TypeError
MappingAdvancedRaises ==
    /\ pc = "request" /\ caller = "mapping_advanced_view"
    /\ ~TooFewFiles(job)
    /\ response' = "TypeError"
    /\ pc' = "done"
    /\ UNCHANGED <<fnvars, request, caller, job, dfA, dfB, params, keys, idx, tol_pct, results,
                   passed, runs, first>>

\* Any other caller of run_reconcile_by_bank(job, dfA, dfB, params)
DirectCall ==
    /\ pc = "request" /\ caller = "direct"
    /\ pc' = "dispatch"
    /\ UNCHANGED <<fnvars, request, caller, job, dfA, dfB, params, keys, idx, tol_pct, results,
                   passed, response, runs, first>>

DirectReturn ==
    /\ pc = "returned" /\ caller = "direct"
    /\ response' = "summary"
    /\ pc' = "done"
    /\ UNCHANGED <<fnvars, request, caller, job, dfA, dfB, params, keys, idx, tol_pct, results,
                   passed, runs, first>>

\* The same caller calls again on the same frames with the same
\* amount_tolerance and any other settings.
DirectCallAgain ==
    /\ pc = "done" /\ caller = "direct" /\ runs = 1
    /\ \E q \in ParamsSet :
          /\ params.none = q.none
          /\ ("amount_tolerance" \in params.keys) = ("amount_tolerance" \in q.keys)
          /\ params.amount_tolerance = q.amount_tolerance
          /\ params' = q
    /\ first' = [params |-> params, results |-> results]
    /\ runs' = 2
    /\ response' = ""
    /\ pc' = "dispatch"
    /\ UNCHANGED <<fnvars, request, caller, job, dfA, dfB, keys, idx, tol_pct, results, passed>>

(***************************************************************************)
(* run_reconcile_by_bank and reconcile_generic, step by step.              *)
(***************************************************************************)
Dispatch(bank, next, p) ==
    /\ pc = "dispatch"
    /\ Upper(BankOf(job)) = bank
    /\ pc' = next
    /\ passed' = p
    /\ UNCHANGED <<fnvars, request, caller, job, dfA, dfB, params, keys, idx, tol_pct, results,
                   response, runs, first>>

DispatchOriental ==
    /\ pc = "dispatch"
    /\ Dispatch("ORIENTAL", "begin", params)
DispatchMagma ==
    /\ pc = "dispatch"
    /\ Dispatch("MAGMA", "generic", passed)
DispatchRsa ==
    /\ pc = "dispatch"
    /\ Dispatch("RSA", "generic", passed)
DispatchIcici ==
    /\ pc = "dispatch"
    /\ Dispatch("ICICI", "generic", passed)
DispatchDefault ==
    /\ Upper(BankOf(job)) \notin {"ORIENTAL", "MAGMA", "RSA", "ICICI"}
    /\ Dispatch(Upper(BankOf(job)), "generic", passed)

\* reconcile_generic: return reconcile_oriental(dfA, dfB, params=params)
Generic ==
    /\ pc = "generic"
    /\ passed' = GenericForwards(params)
    /\ pc' = "begin"
    /\ UNCHANGED <<fnvars, request, caller, job, dfA, dfB, params, keys, idx, tol_pct, results,
                   response, runs, first>>

(***************************************************************************)
(* reconcile_oriental, step by step.                                       *)
(***************************************************************************)
\* results, a_keys, b_keys, keys and tol_pct are set up
Begin ==
    /\ pc = "begin"
    /\ results' = EmptyResults
    /\ keys' = Sorted(KeySet(dfA) \cup KeySet(dfB))
    /\ tol_pct' = TolPct(passed)
    /\ idx' = 1
    /\ pc' = "loop"
    /\ UNCHANGED <<fnvars, request, caller, job, dfA, dfB, params, passed, response, runs, first>>

\* One pass of `for k in keys` that takes branch br
Step(br) ==
    /\ pc = "loop" /\ idx <= Len(keys)
    /\ Branch(dfA, dfB, keys[idx], tol_pct) = br
    /\ results' = LoopBody(results, dfA, dfB, keys[idx], tol_pct)
    /\ idx' = idx + 1
    /\ UNCHANGED <<fnvars, request, caller, job, dfA, dfB, params, pc, keys, tol_pct, passed,
                   response, runs, first>>

StepMissingInA ==
    /\ pc = "loop"
    /\ Step("missing_in_A")
StepMissingInB ==
    /\ pc = "loop"
    /\ Step("missing_in_B")
StepSkip ==
    /\ pc = "loop"
    /\ Step("skip")
StepMatch ==
    /\ pc = "loop"
    /\ Step("match")
StepMismatch ==
    /\ pc = "loop"
    /\ Step("mismatch")
StepMismatchNull ==
    /\ pc = "loop"
    /\ Step("mismatch_null")

\* return results
Return ==
    /\ pc = "loop" /\ idx > Len(keys)
    /\ pc' = "returned"
    /\ UNCHANGED <<fnvars, request, caller, job, dfA, dfB, params, keys, idx, tol_pct, results,
                   passed, response, runs, first>>

Next ==
    \/ MappingViewTooFewFiles \/ MappingViewGet \/ MappingViewPost
    \/ MappingViewNormalize \/ MappingViewNormalizeRaises \/ MappingViewStore
    \/ MappingAdvancedTooFewFiles \/ MappingAdvancedRaises
    \/ DirectCall \/ DirectReturn \/ DirectCallAgain
    \/ DispatchOriental \/ DispatchMagma \/ DispatchRsa \/ DispatchIcici
    \/ DispatchDefault \/ Generic
    \/ Begin
    \/ StepMissingInA \/ StepMissingInB \/ StepSkip \/ StepMatch
    \/ StepMismatch \/ StepMismatchNull
    \/ Return

Spec == Init /\ [][Next]_vars

(***************************************************************************)
(* apply_mapping_to_df(df, mapping), step by step, on the frames and       *)
(* mappings of the normalizer's own inputs.                                *)
(***************************************************************************)
\* Outcomes of a helper call.
Returns(v) == [status |-> "returned", value |-> v]

\* Inputs of the normalizer.
MaxCols == 3
MaxEntries == 2
MaxLen == 3

DistinctSeqs(S, n) ==
    {s \in SeqsUpTo(S, n) : \A i, j \in 1..Len(s) : i # j => s[i] # s[j]}

Mappings ==
    {m \in SeqsUpTo({Entry(o, s) : o \in {"Policy No", " policy no ", "premium", "Other"},
                                 s \in {"", "Policy Number", "Gross Premium", "GST"}}, MaxEntries) :
        \A i, j \in 1..Len(m) : i # j => m[i].orig # m[j].orig}

\* Raw cells: text of up to MaxLen characters, the examples of the
\* documentation, None and NaN.
RawCells ==
    {None, NaN} \cup
    {Str(cs) : cs \in SeqsUpTo({"1", "2", ".", "-", "$"}, MaxLen) \cup
                      {<<"$", "1", ",", "2", "3", "4", ".", "5", "0">>,
                       <<"1", ".", "2", ".", "3">>, <<"1", "-", "2">>,
                       <<" ", "1", " ", "2", " ">>, <<"-", "0", "7">>,
                       <<"\t", "1", " ", "2", "\n">>, <<"", "1", "2", " ">>,
                       <<"1", ".", "5", "0">>}}

\* The run variables while a helper function is called on its own.
NoRun ==
    /\ caller = "direct" /\ job = Job(FALSE, FALSE, "", 0) /\ request = Request("", <<>>)
    /\ dfA = NoFrame /\ dfB = NoFrame /\ params = NoParams
    /\ pc = "helper"
    /\ keys = <<>> /\ idx = 0 /\ tol_pct = 0
    /\ results = EmptyResults /\ passed = NoParams
    /\ response = "" /\ runs = 1
    /\ first = [params |-> NoParams, results |-> EmptyResults]

\* Headers and mappings of every shape, the same text in every cell.
InitHeaders ==
    /\ \E cols \in DistinctSeqs({"Policy No", "POLICY NO", "Premium", "GST"}, MaxCols), m \in Mappings :
          call = [fn |-> "apply_mapping_to_df",
                  df |-> NFrame(cols, [j \in 1..Len(cols) |-> Str(<<"1", "2">>)]),
                  mapping |-> m]

\* One column, mapped or not, every raw cell.
InitCells ==
    /\ \E x \in RawCells,
          std \in {"", "Gross Premium", "Brokerage Amount", "Policy Number",
                   "Policy Start Date", "GST"} :
          call = [fn |-> "apply_mapping_to_df",
                  df |-> NFrame(<<"Amount">>, <<x>>),
                  mapping |-> <<Entry("amount", std)>>]

InitNormalize ==
    /\ NoRun
    /\ InitHeaders \/ InitCells
    /\ local = [at |-> "map", i |-> 1, rename_map |-> {},
                columns |-> call.df.columns, cells |-> call.df.cells]
    /\ ret = NoReturn

AtEntry ==
    /\ call.fn = "apply_mapping_to_df"
    /\ local.at = "map" /\ local.i <= Len(call.mapping)

\* if not std: continue
NormalizeEntrySkipped ==
    /\ AtEntry
    /\ call.mapping[local.i].std = ""
    /\ local' = [local EXCEPT !.i = @ + 1]
    /\ UNCHANGED <<runvars, call, ret>>

\* no column matches the key
NormalizeEntryNoMatch ==
    /\ AtEntry
    /\ call.mapping[local.i].std # ""
    /\ Matches(call.df.columns, call.mapping[local.i].orig) = <<>>
    /\ local' = [local EXCEPT !.i = @ + 1]
    /\ UNCHANGED <<runvars, call, ret>>

\* rename_map[matches[0]] = std
NormalizeEntryMatch ==
    /\ AtEntry
    /\ call.mapping[local.i].std # ""
    /\ LET ms == Matches(call.df.columns, call.mapping[local.i].orig) IN
          /\ ms # <<>>
          /\ local' = [local EXCEPT
                          !.rename_map = SetItem(@, FirstMatch(ms), call.mapping[local.i].std),
                          !.i = @ + 1]
    /\ UNCHANGED <<runvars, call, ret>>

\* df = df.rename(columns=rename_map)
NormalizeRename ==
    /\ call.fn = "apply_mapping_to_df"
    /\ local.at = "map" /\ local.i > Len(call.mapping)
    /\ local' = [local EXCEPT !.columns = Rename(@, local.rename_map),
                              !.at = "coerce"]
    /\ UNCHANGED <<runvars, call, ret>>

\* the four coercions, and return df
NormalizeCoerce ==
    /\ call.fn = "apply_mapping_to_df"
    /\ local.at = "coerce"
    /\ ~DuplicatedCoerced(local.columns)
    /\ \E parse \in {"date", "raises"} :
          /\ local' = [local EXCEPT !.cells = CoerceCells(local.columns, @, parse),
                                    !.at = "returned"]
          /\ ret' = Returns(NFrame(local.columns,
                                   CoerceCells(local.columns, local.cells, parse)))
    /\ UNCHANGED <<runvars, call>>

\* Two columns bear a coerced name c: df[c] is a frame, df[c].apply(f) hands
\* f whole columns, and what df[c] = ... then does depends on the pandas in
\* use: it raises, or it overwrites the cells of both columns.
NormalizeCoerceRaises ==
    /\ call.fn = "apply_mapping_to_df"
    /\ local.at = "coerce"
    /\ DuplicatedCoerced(local.columns)
    /\ local' = [local EXCEPT !.at = "raised"]
    /\ ret' = [status |-> "raised", value |-> "ValueError"]
    /\ UNCHANGED <<runvars, call>>

NormalizeCoerceOverwrites ==
    /\ call.fn = "apply_mapping_to_df"
    /\ local.at = "coerce"
    /\ DuplicatedCoerced(local.columns)
    /\ \E parse \in {"date", "raises"} :
          /\ local' = [local EXCEPT !.cells = CoerceCells(local.columns, @, parse),
                                    !.at = "returned"]
          /\ ret' = Returns(NFrame(local.columns,
                                   CoerceCells(local.columns, local.cells, parse)))
    /\ UNCHANGED <<runvars, call>>

NextNormalize ==
    \/ NormalizeEntrySkipped \/ NormalizeEntryNoMatch \/ NormalizeEntryMatch
    \/ NormalizeRename
    \/ NormalizeCoerce \/ NormalizeCoerceRaises \/ NormalizeCoerceOverwrites

SpecNormalize == InitNormalize /\ [][NextNormalize]_vars

(***************************************************************************)
(* auto_map_columns(colsA, colsB), step by step.  Headers are sequences of *)
(* characters, with or without white space at their ends.                  *)
(***************************************************************************)
\* x in y, for strings
Contains(sub, s) ==
    \E n \in 0..(Len(s) - Len(sub)) : SubSeq(s, n + 1, n + Len(sub)) = sub

\* Order of the characters, by code point: the place of c among them.
Code(c) ==
    LET points == <<"", "", "", "", "", "", "", "", "\t", "\n", "",
                  "\f", "\r", "", "", "", "", "", "", "", "", "", "",
                  "", "", "", "", "", "", "", "", " ", "!", "\"", "#",
                  "$", "%", "&", "'", "(", ")", "*", "+", ",", "-", ".", "/",
                  "0", "1", "2", "3", "4", "5", "6", "7", "8", "9", ":", ";",
                  "<", "=", ">", "?", "@", "A", "B", "C", "D", "E", "F", "G",
                  "H", "I", "J", "K", "L", "M", "N", "O", "P", "Q", "R", "S",
                  "T", "U", "V", "W", "X", "Y", "Z", "[", "\\", "]", "^", "_",
                  "a", "b", "c", "d", "e", "f", "g", "h", "i", "j", "k", "l",
                  "m", "n", "o", "p", "q", "r", "s", "t", "u", "v", "w", "x",
                  "y", "z", "{", "|", "}", "~", "", "", "", "", "", "",
                  "", "", "", "", "", "", "", "", "", "", "", "",
                  "", "", "", "", "", "", "", "", "", "", "", "",
                  "", "", "", " ", "¡", "¢", "£", "¤", "¥", "¦", "§", "¨",
                  "©", "ª", "«", "¬", "­", "®", "¯", "°", "±", "²", "³", "´",
                  "µ", "¶", "·", "¸", "¹", "º", "»", "¼", "½", "¾", "¿", "À",
                  "Á", "Â", "Ã", "Ä", "Å", "Æ", "Ç", "È", "É", "Ê", "Ë", "Ì",
                  "Í", "Î", "Ï", "Ð", "Ñ", "Ò", "Ó", "Ô", "Õ", "Ö", "×", "Ø",
                  "Ù", "Ú", "Û", "Ü", "Ý", "Þ", "ß", "à", "á", "â", "ã", "ä",
                  "å", "æ", "ç", "è", "é", "ê", "ë", "ì", "í", "î", "ï", "ð",
                  "ñ", "ò", "ó", "ô", "õ", "ö", "÷", "ø", "ù", "ú", "û", "ü",
                  "ý", "þ", "ÿ">>
    IN  CHOOSE n \in 1..Len(points) : points[n] = c
\* x < y, for strings
RECURSIVE StrLess(_, _)
StrLess(x, y) ==
    IF y = <<>> THEN FALSE
    ELSE IF x = <<>> THEN TRUE
    ELSE IF Head(x) = Head(y) THEN StrLess(Tail(x), Tail(y))
    ELSE Code(Head(x)) < Code(Head(y))

\* difflib.SequenceMatcher.find_longest_match on whole strings: the longest
\* block a[i:i+k] == b[j:j+k]; of the longest ones, the one that starts
\* earliest in a, and of those the one that starts earliest in b.
BlockAt(a, b, i, j, k) ==
    /\ i + k - 1 <= Len(a) /\ j + k - 1 <= Len(b)
    /\ SubSeq(a, i, i + k - 1) = SubSeq(b, j, j + k - 1)
\* the length of the longest block, looking from k downwards
RECURSIVE LongestFrom(_, _, _)
LongestFrom(a, b, k) ==
    IF k = 0 \/ \E i \in 1..Len(a), j \in 1..Len(b) : BlockAt(a, b, i, j, k)
    THEN k
    ELSE LongestFrom(a, b, k - 1)
\* the earliest start in a of a block of length k, looking from i upwards
RECURSIVE EarliestInA(_, _, _, _)
EarliestInA(a, b, k, i) ==
    IF \E j \in 1..Len(b) : BlockAt(a, b, i, j, k) THEN i
    ELSE EarliestInA(a, b, k, i + 1)
\* the earliest start in b of a block of length k at i, looking from j upwards
RECURSIVE EarliestInB(_, _, _, _, _)
EarliestInB(a, b, k, i, j) ==
    IF BlockAt(a, b, i, j, k) THEN [i |-> i, j |-> j, k |-> k]
    ELSE EarliestInB(a, b, k, i, j + 1)
LongestMatch(a, b) ==
    LET k == LongestFrom(a, b, IF Len(a) < Len(b) THEN Len(a) ELSE Len(b)) IN
    IF k = 0 THEN [i |-> 1, j |-> 1, k |-> 0]
    ELSE EarliestInB(a, b, k, EarliestInA(a, b, k, 1), 1)

\* The number of matched characters: the longest block, then the same to the
\* left and to the right of it (get_matching_blocks).
RECURSIVE Matched(_, _)
MatchedAround(a, b, m) ==
    IF m.k = 0 THEN 0
    ELSE m.k + Matched(SubSeq(a, 1, m.i - 1), SubSeq(b, 1, m.j - 1))
             + Matched(SubSeq(a, m.i + m.k, Len(a)), SubSeq(b, m.j + m.k, Len(b)))
Matched(a, b) ==
    IF a = <<>> \/ b = <<>> THEN 0 ELSE MatchedAround(a, b, LongestMatch(a, b))

\* ratio() is 2.0 * matched / (len(a) + len(b)), and 1.0 for two empty
\* strings; it is kept as the fraction num / den.
Ratio(a, b) ==
    IF Len(a) + Len(b) = 0 THEN [num |-> 1, den |-> 1]
    ELSE [num |-> 2 * Matched(a, b), den |-> Len(a) + Len(b)]
RatioLess(r, s) == r.num * s.den < s.num * r.den

\* ratio >= cutoff, the cutoff being 0.6
AtLeastSevenTenths(r) == 10 * r.num >= 7 * r.den
AtLeastCutoff(r) == 10 * r.num >= 6 * r.den

\* difflib.get_close_matches(word, possibilities, n=1, cutoff=0.6): of the
\* possibilities x with SequenceMatcher(a=x, b=word).ratio() >= cutoff, the
\* largest by (ratio, x); the empty list when there is none.
Close(word, possibilities) ==
    {x \in {possibilities[n] : n \in 1..Len(possibilities)} :
        AtLeastCutoff(Ratio(x, word))}
Best(word, close) ==
    CHOOSE x \in close :
        \A y \in close :
            \/ RatioLess(Ratio(y, word), Ratio(x, word))
            \/ ~RatioLess(Ratio(x, word), Ratio(y, word)) /\ ~StrLess(x, y)

\* lowerB = {c.lower(): c for c in colsB}: the last column of each lower-cased name
LowerB(colsB, low) ==
    colsB[CHOOSE n \in 1..Len(colsB) :
              /\ Lower(colsB[n]) = low
              /\ \A o \in (n + 1)..Len(colsB) : Lower(colsB[o]) # low]

\* candidates = [b for b in colsB if a_low in b.lower() or b.lower() in a_low]
Candidates(a_low, colsB) ==
    SelectSeq(colsB, LAMBDA b : Contains(a_low, Lower(b)) \/ Contains(Lower(b), a_low))
\* candidates[0]
LastCandidate(cands) == cands[Len(cands)]
FirstCandidate(cands) == Head(cands)

\* Headers.
Hdr ==
    [PolicyNo |-> <<"P", "o", "l", "i", "c", "y", " ", "N", "o">>,
     PolicyNumber |-> <<"P", "o", "l", "i", "c", "y", "N", "u", "m", "b", "e", "r">>,
     PolicyNum |-> <<"P", "o", "l", "i", "c", "y", " ", "N", "u", "m">>,
     Amount |-> <<"A", "m", "o", "u", "n", "t">>,
     AMOUNT |-> <<"A", "M", "O", "U", "N", "T">>,
     AmtSpace |-> <<"A", "m", "t", " ">>,
     TabAmount |-> <<"\t", "A", "m", "o", "n", "t", "\n">>,
     Ete |-> <<"É", "t", "é">>,
     ETE |-> <<"X", " ", "É", "T", "É">>,
     NetAmt |-> <<"N", "e", "t", " ", "A", "m", "t">>]

MaxColsA == 2
MaxColsB == 2

InitSuggest ==
    /\ NoRun
    /\ \E as \in DistinctSeqs({Hdr.PolicyNo, Hdr.Amount, Hdr.AmtSpace, Hdr.TabAmount,
                               Hdr.Ete}, MaxColsA),
          bs \in DistinctSeqs({Hdr.PolicyNumber, Hdr.PolicyNum, Hdr.Amount, Hdr.AMOUNT,
                               Hdr.NetAmt, Hdr.ETE}, MaxColsB) :
          call = [fn |-> "auto_map_columns", colsA |-> as, colsB |-> bs]
    /\ local = [at |-> "loop", i |-> 1, mapped |-> {}, line |-> 96]
    /\ ret = NoReturn

AtColumn ==
    /\ call.fn = "auto_map_columns"
    /\ local.at = "loop" /\ local.i <= Len(call.colsA)
A_low == Lower(Strip(call.colsA[local.i]))
Possibilities == [n \in 1..Len(call.colsB) |-> Lower(call.colsB[n])]

\* if candidates: mapped[a] = candidates[0]; continue
SuggestSubstring ==
    /\ AtColumn
    /\ Candidates(A_low, call.colsB) # <<>>
    /\ local' = [local EXCEPT
                    !.mapped = SetItem(@, call.colsA[local.i],
                                       FirstCandidate(Candidates(A_low, call.colsB))),
                    !.i = @ + 1, !.line = 102]
    /\ UNCHANGED <<runvars, call, ret>>

\* if close: mapped[a] = lowerB[close[0]]; continue
SuggestFuzzy ==
    /\ AtColumn
    /\ Candidates(A_low, call.colsB) = <<>>
    /\ Close(A_low, Possibilities) # {}
    /\ local' = [local EXCEPT
                    !.mapped = SetItem(@, call.colsA[local.i],
                                       LowerB(call.colsB, Best(A_low, Close(A_low, Possibilities)))),
                    !.i = @ + 1, !.line = 105]
    /\ UNCHANGED <<runvars, call, ret>>

\* mapped[a] = ""
SuggestNothing ==
    /\ AtColumn
    /\ Candidates(A_low, call.colsB) = <<>>
    /\ Close(A_low, Possibilities) = {}
    /\ local' = [local EXCEPT !.mapped = SetItem(@, call.colsA[local.i], <<>>),
                              !.i = @ + 1, !.line = 106]
    /\ UNCHANGED <<runvars, call, ret>>

\* return mapped
SuggestReturn ==
    /\ call.fn = "auto_map_columns"
    /\ local.at = "loop" /\ local.i > Len(call.colsA)
    /\ local' = [local EXCEPT !.at = "returned"]
    /\ ret' = Returns(local.mapped)
    /\ UNCHANGED <<runvars, call>>

NextSuggest == SuggestSubstring \/ SuggestFuzzy \/ SuggestNothing \/ SuggestReturn

SpecSuggest == InitSuggest /\ [][NextSuggest]_vars

(***************************************************************************)
(* What the claims speak of, stated on the frames themselves.              *)
(***************************************************************************)
\* The policy numbers of a frame: the values of its Policy Number column.
C1_PolicyNumbers(df) ==
    IF df.key_col = "Policy Number"
    THEN {df.rows[i].key : i \in 1..Len(df.rows)}
    ELSE {}

\* The Gross Premium value of the first row of df, in row order, whose Policy
\* Number is k; None when the frame has no Gross Premium column.
C2_FirstIndex(df, k) ==
    CHOOSE i \in 1..Len(df.rows) :
        /\ df.rows[i].key = k
        /\ \A j \in 1..(i - 1) : df.rows[j].key # k
C2_FirstValue(df, k) ==
    IF df.prem_col = "Gross Premium" THEN df.rows[C2_FirstIndex(df, k)].prem ELSE None

\* A null premium, as the claims have it: None, or the NaN of an empty cell.
\* (The matcher itself tests `is None` only.)
C3_IsNull(x) == x.t \in {"None", "NaN"}

\* The run has produced (part of) a summary for the current call.
C1_InLoop == pc = "loop" /\ idx <= Len(keys)
C1_Returned == pc = "returned" \/ (pc = "done" /\ response \in {"summary", "dashboard_redirect"})

ExampleA == Frame(key, prem, <<Row("P1", Num(10000)), Row("P2", Num(5000))>>)
ExampleB == Frame(key, prem, <<Row("P1", Num(10000)), Row("P3", Num(7500))>>)

OneRow(k, p) == Frame(key, prem, <<Row(k, p)>>)

\* C1: a key found only in B adds exactly 1 to missing_in_A, a key found only
\* in A adds exactly 1 to missing_in_B, and neither adds to anything else; so
\* the two counters end as the sizes of the two set differences, and the run
\* on A = {P1: 100, P2: 50}, B = {P1: 100, P3: 75} at 1% returns matches 1,
\* mismatches 0, missing_in_B 1, missing_in_A 1.
C1_StepMissing ==
    C1_InLoop =>
        LET k == keys[idx]
        IN  /\ k \in C1_PolicyNumbers(dfB) \ C1_PolicyNumbers(dfA)
                => results' = [results EXCEPT !.missing_in_A = @ + 1]
            /\ k \in C1_PolicyNumbers(dfA) \ C1_PolicyNumbers(dfB)
                => results' = [results EXCEPT !.missing_in_B = @ + 1]
C1_Final ==
    C1_Returned =>
        /\ results.missing_in_A = Cardinality(C1_PolicyNumbers(dfB) \ C1_PolicyNumbers(dfA))
        /\ results.missing_in_B = Cardinality(C1_PolicyNumbers(dfA) \ C1_PolicyNumbers(dfB))
        /\ (dfA = ExampleA /\ dfB = ExampleB /\ tol_pct = 100)
            => results = [matches |-> 1, mismatches |-> 0, missing_in_A |-> 1,
                          missing_in_B |-> 1, diffs |-> <<>>]
C1_MissingKeys == [][C1_StepMissing]_vars /\ []C1_Final
C1_Witness ==
    /\ pc = "done" /\ dfA = ExampleA /\ dfB = ExampleB /\ tol_pct = 100
    /\ results.matches = 1 /\ results.mismatches = 0
    /\ results.missing_in_A = 1 /\ results.missing_in_B = 1

\* C2: a key in both frames whose two premiums a and b are numbers is a match
\* if and only if a = b or abs(a - b) <= max(1e-9, abs(a) * fraction), and is
\* otherwise a mismatch with the diff {policy, a, b}; at 1%, 100 against 101
\* is a match and 100 against 101.01 is a mismatch.  The inequality is the
\* one between the decimal amounts: on hundredths and ten-thousandths the
\* floor 1e-9 admits a = b only, and the rest is
\* abs(a - b) * 10000 <= abs(a) * fraction on the integers.
C2_Close(a, b, fraction) ==
    a = b \/ Abs(a - b) * 10000 <= Abs(a) * fraction
C2_Step ==
    C1_InLoop =>
        LET k == keys[idx]
        IN  (k \in C1_PolicyNumbers(dfA) \cap C1_PolicyNumbers(dfB)
             /\ IsNum(C2_FirstValue(dfA, k)) /\ IsNum(C2_FirstValue(dfB, k)))
            => LET a == C2_FirstValue(dfA, k)
                   b == C2_FirstValue(dfB, k)
               IN  IF C2_Close(a.v, b.v, tol_pct)
                   THEN results' = [results EXCEPT !.matches = @ + 1]
                   ELSE results' = [results EXCEPT
                            !.mismatches = @ + 1,
                            !.diffs = Append(@, [policy |-> k, a |-> a, b |-> b])]
C2_Boundary ==
    (C1_Returned /\ tol_pct = 100 /\ dfA = OneRow("P1", Num(10000))) =>
        /\ dfB = OneRow("P1", Num(10100)) => results.matches = 1 /\ results.mismatches = 0
        /\ dfB = OneRow("P1", Num(10101)) => results.matches = 0 /\ results.mismatches = 1
C2_Tolerance == [][C2_Step]_vars /\ []C2_Boundary

\* C3: a key in both frames whose premium is null on both sides changes
\* nothing of the summary; null on exactly one side, it adds 1 to mismatches
\* and one diff that holds the null side as null and the other side's value.
C3_Step ==
    C1_InLoop =>
        LET k == keys[idx]
        IN  k \in C1_PolicyNumbers(dfA) \cap C1_PolicyNumbers(dfB)
            => LET a == C2_FirstValue(dfA, k)
                   b == C2_FirstValue(dfB, k)
               IN  /\ (C3_IsNull(a) /\ C3_IsNull(b)) => results' = results
                   /\ (C3_IsNull(a) # C3_IsNull(b))
                        => results' = [results EXCEPT
                              !.mismatches = @ + 1,
                              !.diffs = Append(@, [policy |-> k, a |-> a, b |-> b])]
C3_NullHandling == [][C3_Step]_vars

\* C4: when the run has returned, matches + mismatches + missing_in_A +
\* missing_in_B is the number of distinct keys of the two frames less the
\* keys in both whose premium is null on both sides.
C4_BothNull ==
    {k \in C1_PolicyNumbers(dfA) \cap C1_PolicyNumbers(dfB) :
        C3_IsNull(C2_FirstValue(dfA, k)) /\ C3_IsNull(C2_FirstValue(dfB, k))}
C4_Completeness ==
    C1_Returned =>
        results.matches + results.mismatches + results.missing_in_A
            + results.missing_in_B
        = Cardinality(C1_PolicyNumbers(dfA) \cup C1_PolicyNumbers(dfB))
            - Cardinality(C4_BothNull)

\* C5: amount_tolerance is a whole percentage, divided by 100 before it is
\* used, on every path into the matcher; without params, with an empty dict or
\* with a dict that has no amount_tolerance the fraction is 0.01; so the simple
\* view (no params) and the params the advanced view builds from a form that
\* posts no amount_tolerance (its default, 1) give the same fraction.
C5_Fraction(p) ==
    IF p.none \/ p.keys = {} \/ "amount_tolerance" \notin p.keys
    THEN 100
    ELSE p.amount_tolerance * 100
C5_ToleranceUnit ==
    (pc = "loop" \/ C1_Returned) =>
        /\ tol_pct = C5_Fraction(params)
        /\ params \in {NoParams, AdvancedParams(Post({}, <<>>, <<>>, <<>>, "", "", <<>>))}
            => tol_pct = 100
C5_Witness ==
    /\ pc = "done" /\ response = "summary"
    /\ params = AdvancedParams(Post({}, <<>>, <<>>, <<>>, "", "", <<>>))
    /\ tol_pct = 100
    /\ dfA = OneRow("P1", Num(10000)) /\ dfB = OneRow("P1", Num(10100))
    /\ results.matches = 1

\* C6: a second call on the same frames with the same amount_tolerance returns
\* the summary the first call returned, whatever date_window, fuzzy_pct,
\* enforce_b_unique, use_references and keywords are in the two calls, and a
\* run changes none of dfA, dfB and params.
C6_SameSummary == (C1_Returned /\ runs = 2) => results = first.results
C6_Frame ==
    pc \in {"dispatch", "generic", "begin", "loop", "returned"}
        => dfA' = dfA /\ dfB' = dfB /\ params' = params
C6_Pure == []C6_SameSummary /\ [][C6_Frame]_vars
C6_Witness ==
    /\ pc = "done" /\ runs = 2
    /\ "fuzzy_pct" \in first.params.keys /\ "fuzzy_pct" \in params.keys
    /\ first.params.date_window # params.date_window
    /\ first.params.fuzzy_pct # params.fuzzy_pct
    /\ first.params.enforce_b_unique # params.enforce_b_unique
    /\ first.params.use_references # params.use_references
    /\ first.params.keywords # params.keywords
    /\ results.mismatches = 1 /\ results = first.results

\* C7: for every bank identifier, in any letter case, enumerated or not, and
\* for a missing job or company, the dispatcher goes on to a policy (it never
\* stops on the identifier) and the summary it returns is the one the generic
\* policy returns for the same dfA, dfB and params.
C7_Dispatch ==
    /\ pc = "dispatch"
        => ENABLED (DispatchOriental \/ DispatchMagma \/ DispatchRsa
                    \/ DispatchIcici \/ DispatchDefault)
    /\ C1_Returned => results = reconcile_generic(dfA, dfB, params)
C7_Witness ==
    /\ pc = "done" /\ caller = "direct"
    /\ job.bank_identifier = "oriental"
    /\ "amount_tolerance" \in params.keys /\ params.amount_tolerance = 5
    /\ dfB = Frame(key, prem, <<Row("P1", Num(10101)), Row("P3", NaN)>>)
    /\ results.matches = 1 /\ results.missing_in_A = 1 /\ results.missing_in_B = 1

\* C8 as claimed: when Policy Number is a column of neither frame the
\* matcher was called on, the run of mapping_view ends in an error and the
\* job gets no summary and is not COMPLETED.  The matcher was called when
\* its loop index was set (idx >= 1).
C8_NeitherHasKey ==
    /\ caller = "mapping_view" /\ pc = "done" /\ idx >= 1
    /\ "Policy Number" \notin {dfA.key_col, dfA.prem_col, dfB.key_col, dfB.prem_col}
C8_HardError ==
    C8_NeitherHasKey =>
        /\ response \in {"error_redirect", "ValueError"}
        /\ ~job.has_summary
        /\ job.status # "COMPLETED"
\* C8 amended: when Policy Number is a column of neither frame the matcher
\* was called on, the run of mapping_view ends without an error: the all-zero
\* summary with no diffs is stored on the job and the job is COMPLETED.
C8_EmptySummary ==
    C8_NeitherHasKey =>
        /\ response = "dashboard_redirect"
        /\ job.status = "COMPLETED" /\ job.has_summary
        /\ job.summary = [matches |-> 0, mismatches |-> 0, missing_in_A |-> 0,
                          missing_in_B |-> 0, diffs |-> <<>>]
C8_Witness ==
    /\ C8_NeitherHasKey
    /\ dfA.rows # <<>> /\ dfB.rows # <<>>
    /\ job.status = "COMPLETED" /\ job.summary.diffs = <<>>

\* C9 as claimed: when a file of the job is absent or a frame has no rows, the
\* POST on mapping_view ends in an error and the job gets no summary.
C9_HardError ==
    (caller = "mapping_view" /\ pc = "done" /\ request.method = "POST"
     /\ (job.nfiles < 2 \/ dfA.rows = <<>> \/ dfB.rows = <<>>))
        => response \in {"error_redirect", "ValueError"} /\ ~job.has_summary
\* C9 amended: with fewer than two files the views report an error, never call
\* the matcher and store no summary; a frame that is there but has no rows and
\* reaches the matcher (idx >= 1) is reconciled like any other: the run
\* completes and its summary is stored, every policy number of the other
\* frame counted as missing.
C9_TwoFiles ==
    /\ (caller \in {"mapping_view", "mapping_advanced_view"} /\ job.nfiles < 2)
        => /\ pc \in {"request", "done"}
           /\ ~job.has_summary /\ job.status = "PENDING"
           /\ pc = "done" => response = "error_redirect"
    /\ (caller = "mapping_view" /\ pc = "done" /\ idx >= 1)
        => /\ job.nfiles = 2
           /\ dfA.rows = <<>>
                => /\ job.has_summary /\ job.status = "COMPLETED"
                   /\ job.summary.missing_in_A = Cardinality(C1_PolicyNumbers(dfB))
                   /\ job.summary.missing_in_B = 0
                   /\ job.summary.matches = 0 /\ job.summary.mismatches = 0
           /\ dfB.rows = <<>>
                => /\ job.has_summary /\ job.status = "COMPLETED"
                   /\ job.summary.missing_in_B = Cardinality(C1_PolicyNumbers(dfA))
                   /\ job.summary.missing_in_A = 0
                   /\ job.summary.matches = 0 /\ job.summary.mismatches = 0
C9_Witness ==
    /\ caller = "mapping_view" /\ pc = "done" /\ job.nfiles = 1
    /\ response = "error_redirect" /\ ~job.has_summary

\* C10: for a key found in several rows of a frame the premium compared is the
\* one of the first such row, on each side; the later rows change nothing: the
\* summary is the summary of the two frames cut down to the first row of every
\* key, so the key is counted once.
RECURSIVE C10_Pick(_, _)
C10_Pick(rs, i) ==
    IF i > Len(rs) THEN <<>>
    ELSE (IF \A j \in 1..(i - 1) : rs[j].key # rs[i].key THEN <<rs[i]>> ELSE <<>>)
         \o C10_Pick(rs, i + 1)
C10_FirstRows(df) == [df EXCEPT !.rows = C10_Pick(df.rows, 1)]
C10_FirstRowWins ==
    C1_Returned =>
        results = reconcile_oriental(C10_FirstRows(dfA), C10_FirstRows(dfB), params)
C10_Witness ==
    /\ pc = "done"
    /\ dfA = Frame(key, prem, <<Row("P1", Num(10000)), Row("P1", Num(5000))>>)
    /\ dfB = Frame(key, prem, <<Row("P1", Num(10000)), Row("P1", Num(7500))>>)
    /\ results.matches = 1 /\ results.mismatches = 0

(***************************************************************************)
(* What the claims on the normalizer speak of: the raw headers and the     *)
(* mapping that went in, the headers and cells that came out.              *)
(***************************************************************************)
C11_RawColumns == call.df.columns
C11_Mapping == call.mapping
C11_Normalizing == call.fn = "apply_mapping_to_df"
C11_IsRenamed == C11_Normalizing /\ local.at \in {"coerce", "returned", "raised"}
C11_Normalized == C11_Normalizing /\ ret.status = "returned"

\* Column j is the first, in column order, of the columns that equal its
\* name after trimming and lower-casing.
C11_FirstOfItsName(j) ==
    \A i \in 1..(j - 1) : StripLower(C11_RawColumns[i]) # StripLower(C11_RawColumns[j])

\* The mapping entries, by position, with a non-empty target whose key equals
\* the name of column j after trimming and lower-casing both.
C11_EntriesFor(j) ==
    {k \in 1..Len(C11_Mapping) :
        /\ C11_Mapping[k].std # ""
        /\ StripLower(C11_Mapping[k].orig) = StripLower(C11_RawColumns[j])}

C11_Last(S) == CHOOSE k \in S : \A l \in S : l <= k

\* C11 as stated: a column is renamed to std exactly when some entry
\* orig -> std with a non-empty std has a key equal to the column's name after
\* trimming and lower-casing, the column being the first of that name; every
\* other column keeps its name.
C11_RenamedExactlyWhen ==
    C11_IsRenamed =>
        \A j \in 1..Len(C11_RawColumns) :
            /\ \A k \in C11_EntriesFor(j) :
                  C11_FirstOfItsName(j) => local.columns[j] = C11_Mapping[k].std
            /\ (C11_EntriesFor(j) = {} \/ ~C11_FirstOfItsName(j)) =>
                  local.columns[j] = C11_RawColumns[j]

\* C11, amended: the first column of a name that some entry with a non-empty
\* target matches (trimmed, lower-cased) takes the target of the last such
\* entry in mapping order; every other column keeps its name.
C11_LastEntryNames ==
    C11_IsRenamed =>
        /\ Len(local.columns) = Len(C11_RawColumns)
        /\ \A j \in 1..Len(C11_RawColumns) :
              IF C11_EntriesFor(j) # {} /\ C11_FirstOfItsName(j)
              THEN local.columns[j] = C11_Mapping[C11_Last(C11_EntriesFor(j))].std
              ELSE local.columns[j] = C11_RawColumns[j]
C11_Witness ==
    /\ C11_Normalized
    /\ C11_RawColumns = <<"POLICY NO", "Policy No", "Premium">>
    /\ C11_Mapping = <<Entry("Policy No", "Policy Number"), Entry(" policy no ", "GST")>>
    /\ ret.value.columns = <<"GST", "Policy No", "Premium">>

\* C12: the normalized output never has two columns of the same name: when
\* two raw columns are sent to one canonical field, or a column is sent to a
\* name another column bears, only the last entry's column carries the name.
C12_OneColumnPerField ==
    C11_Normalized =>
        \A i, j \in 1..Len(ret.value.columns) :
            i # j => ret.value.columns[i] # ret.value.columns[j]

\* What C13 speaks of: the one cell of a frame whose only column was sent to
\* Gross Premium or Brokerage Amount, before and after.
C13_NumericTargets == {"Gross Premium", "Brokerage Amount"}
C13_OneNumericCell ==
    /\ C11_Normalizing
    /\ Len(C11_RawColumns) = 1 /\ Len(C11_Mapping) = 1
    /\ C11_EntriesFor(1) = {1}
    /\ C11_Mapping[1].std \in C13_NumericTargets
C13_CellIn == call.df.cells[1]
C13_CellOut == ret.value.cells[1]

C13_KeptChars == {"0", "1", "2", "3", "4", "5", "6", "7", "8", "9", ".", "-"}
C13_Remainder(cs) == SelectSeq(cs, LAMBDA c : c \in C13_KeptChars)
C13_DigitsOf(r) == SelectSeq(r, LAMBDA c : c \notin {".", "-"})
C13_DotsOf(r) == SelectSeq(r, LAMBDA c : c = ".")
C13_DashesOf(r) == SelectSeq(r, LAMBDA c : c = "-")
\* A valid number: digits with at most one ".", a "-" in front at most.
C13_ValidNumber(r) ==
    /\ C13_DigitsOf(r) # <<>>
    /\ Len(C13_DotsOf(r)) <= 1
    /\ Len(C13_DashesOf(r)) <= 1
    /\ C13_DashesOf(r) # <<>> => r[1] = "-"
RECURSIVE C13_Pow10(_)
C13_Pow10(n) == IF n = 0 THEN 1 ELSE 10 * C13_Pow10(n - 1)
RECURSIVE C13_ValueOf(_, _)
C13_ValueOf(ds, acc) ==
    IF ds = <<>> THEN acc ELSE C13_ValueOf(Tail(ds), acc * 10 + DigitVal(Head(ds)))
\* The number r denotes is Numerator(r) / 10^FractionDigits(r).
C13_Numerator(r) == (IF C13_DashesOf(r) # <<>> THEN -1 ELSE 1) * C13_ValueOf(C13_DigitsOf(r), 0)
C13_FractionDigits(r) ==
    IF C13_DotsOf(r) = <<>> THEN 0
    ELSE Len(r) - (CHOOSE i \in 1..Len(r) : r[i] = ".")

\* C13: _clean_numeric, applied to the cells of Gross Premium and Brokerage
\* Amount, never raises, gives null for null, and for a string keeps the
\* digits, "." and "-": null when nothing, "." or "-" is left or when what is
\* left is no valid number; the integer it denotes when it has no ".", the
\* decimal when it has one.  '$1,234.50' gives 1234.5, '-' null, '12' the
\* integer 12.
C13_NumericCleanup ==
    C13_OneNumericCell =>
        /\ ret.status # "raised"
        /\ C11_Normalized =>
              /\ IsNone(C13_CellIn) => IsNone(C13_CellOut)
              /\ IsStr(C13_CellIn) =>
                    LET r == C13_Remainder(C13_CellIn.s) IN
                    IF r \in {<<>>, <<".">>, <<"-">>} \/ ~C13_ValidNumber(r)
                    THEN IsNone(C13_CellOut)
                    ELSE IF C13_DotsOf(r) = <<>>
                    THEN C13_CellOut.t = "int" /\ C13_CellOut.v = C13_Numerator(r)
                    ELSE /\ C13_CellOut.t = "float"
                         /\ C13_CellOut.e <= C13_FractionDigits(r)
                         /\ C13_CellOut.m * C13_Pow10(C13_FractionDigits(r) - C13_CellOut.e) = C13_Numerator(r)
              /\ C13_CellIn = Str(<<"$", "1", ",", "2", "3", "4", ".", "5", "0">>) =>
                    C13_CellOut = FloatNum(12345, 1)
              /\ C13_CellIn = Str(<<"-">>) => C13_CellOut = None
              /\ C13_CellIn = Str(<<"1", "2">>) => C13_CellOut = IntNum(12)
              /\ C13_CellIn \in {Str(<<"1", ".", "2", ".", "3">>), Str(<<"1", "-", "2">>)} =>
                    C13_CellOut = None
C13_Witness ==
    /\ C13_OneNumericCell /\ C11_Normalized
    /\ C11_Mapping[1].std = "Brokerage Amount"
    /\ C13_CellIn = Str(<<"$", "1", ",", "2", "3", "4", ".", "5", "0">>)
    /\ C13_CellOut = FloatNum(12345, 1)

\* C14 as stated: the columns of the result are exactly the canonical fields
\* that received a mapped raw column.
C14_UnmappedDropped ==
    C11_Normalized =>
        {ret.value.columns[j] : j \in 1..Len(ret.value.columns)} =
        {C11_Mapping[k].std : k \in UNION {C11_EntriesFor(j) : j \in 1..Len(C11_RawColumns)}}

\* C14, amended: no column is dropped; the result has the columns of the
\* input in the same order, and a raw column with no mapping entry, or with
\* only empty targets, is there under its raw header.
C14_UnmappedKept ==
    C11_Normalized =>
        /\ Len(ret.value.columns) = Len(C11_RawColumns)
        /\ \A j \in 1..Len(C11_RawColumns) :
              C11_EntriesFor(j) = {} => ret.value.columns[j] = C11_RawColumns[j]
C14_Witness ==
    /\ C11_Normalized
    /\ C11_RawColumns = <<"Policy No", "Premium", "GST">>
    /\ C11_Mapping = <<Entry("Policy No", "Policy Number"), Entry("premium", "")>>
    /\ ret.value.columns = <<"Policy Number", "Premium", "GST">>

(***************************************************************************)
(* What the claims on the suggestor speak of.                              *)
(***************************************************************************)
C15_Suggested == call.fn = "auto_map_columns" /\ ret.status = "returned"
C15_ColumnsOf(cols) == {cols[n] : n \in 1..Len(cols)}
\* The entries of the result for column a.
C15_ValuesFor(a) == {p[2] : p \in {q \in ret.value : q[1] = a}}
\* One name is a substring of the other: a as the claim takes it, b lower-cased.
C15_SubstringMatch(a, b) ==
    Contains(a, Lower(b)) \/ Contains(Lower(b), a)
\* The similarity ratio of a B column, lower-cased, to a as the claim takes it.
C15_Similarity(a, b) == Ratio(Lower(b), a)

C15_Rule(a, v, B) ==
    IF \E n \in 1..Len(B) : C15_SubstringMatch(a, B[n])
    THEN \E n \in 1..Len(B) :
            /\ v = B[n]
            /\ C15_SubstringMatch(a, B[n])
            /\ \A o \in 1..(n - 1) : ~C15_SubstringMatch(a, B[o])
    ELSE IF \E n \in 1..Len(B) : AtLeastCutoff(C15_Similarity(a, B[n]))
    THEN \E n \in 1..Len(B) :
            /\ v = B[n]
            /\ AtLeastCutoff(C15_Similarity(a, B[n]))
            /\ \A o \in 1..Len(B) : ~RatioLess(C15_Similarity(a, B[n]), C15_Similarity(a, B[o]))
    ELSE v = <<>>

\* C15 as stated: the result of auto_map_columns has one entry for every
\* column of A, a column of B or the empty string: the first column of B, in
\* B's order, with which the lower-cased a is in substring relation when
\* there is one, however similar the other columns are; otherwise a column
\* of B whose similarity ratio to the lower-cased a is the best and at least
\* 0.6; otherwise the empty string.
C15_Suggestion ==
    C15_Suggested =>
        /\ {p[1] : p \in ret.value} = C15_ColumnsOf(call.colsA)
        /\ \A a \in C15_ColumnsOf(call.colsA) :
              /\ Cardinality(C15_ValuesFor(a)) = 1
              /\ \A v \in C15_ValuesFor(a) :
                    C15_Rule(Lower(a), v, call.colsB)

\* C15, amended: the same, with every column a of A taken lower-cased and
\* without the white space at its two ends (the columns of B are lower-cased
\* only); the entry is kept under a as it was given.
C15_TrimmedSuggestion ==
    C15_Suggested =>
        /\ {p[1] : p \in ret.value} = C15_ColumnsOf(call.colsA)
        /\ \A a \in C15_ColumnsOf(call.colsA) :
              /\ Cardinality(C15_ValuesFor(a)) = 1
              /\ \A v \in C15_ValuesFor(a) :
                    C15_Rule(Lower(Strip(a)), v, call.colsB)
C15_Witness ==
    /\ C15_Suggested
    /\ call.colsA = <<Hdr.AmtSpace, Hdr.TabAmount>>
    /\ call.colsB = <<Hdr.NetAmt, Hdr.Amount>>
    /\ ~C15_SubstringMatch(Lower(Hdr.AmtSpace), Hdr.NetAmt)
    /\ RatioLess(C15_Similarity(Lower(Strip(Hdr.AmtSpace)), Hdr.NetAmt),
                 C15_Similarity(Lower(Strip(Hdr.AmtSpace)), Hdr.Amount))
    /\ ret.value = {<<Hdr.AmtSpace, Hdr.NetAmt>>, <<Hdr.TabAmount, Hdr.Amount>>}

\* suggest(["Policy No"], ["PolicyNumber"])
C16_PolicyNoCall ==
    /\ C15_Suggested
    /\ call.colsA = <<Hdr.PolicyNo>> /\ call.colsB = <<Hdr.PolicyNumber>>

\* C16 as stated: suggest(["Policy No"], ["PolicyNumber"]) maps "Policy No"
\* to "PolicyNumber" through the substring branch: the lower-cased A name is
\* contained in the lower-cased B name.
C16_SubstringBranch ==
    C16_PolicyNoCall =>
        /\ ret.value = {<<Hdr.PolicyNo, Hdr.PolicyNumber>>}
        /\ local.line = 102
        /\ Contains(Lower(Hdr.PolicyNo), Lower(Hdr.PolicyNumber))

\* C16, amended: suggest(["Policy No"], ["PolicyNumber"]) maps "Policy No" to
\* "PolicyNumber" through the similarity fallback: neither lower-cased name
\* contains the other ("policy no" has a space), and the ratio is 14/21.
C16_FuzzyBranch ==
    C16_PolicyNoCall =>
        /\ ret.value = {<<Hdr.PolicyNo, Hdr.PolicyNumber>>}
        /\ local.line = 105
        /\ ~C15_SubstringMatch(Lower(Hdr.PolicyNo), Hdr.PolicyNumber)
        /\ C15_Similarity(Lower(Hdr.PolicyNo), Hdr.PolicyNumber) = [num |-> 14, den |-> 21]
C16_Witness ==
    /\ C16_PolicyNoCall
    /\ ret.value = {<<Hdr.PolicyNo, Hdr.PolicyNumber>>}
    /\ local.line = 105

\* C17: keys are visited in ascending order, so the diffs of a summary are
\* strictly ascending by key; a pass of the loop appends one record, for the
\* key it visits, exactly when it counts a mismatch, and none when it counts
\* a match, a missing key or nothing; so len(diffs) = mismatches throughout.
C17_KeyRank(k) == CHOOSE n \in 1..Len(KeyOrder) : KeyOrder[n] = k
C17_Ascending(ks) ==
    \A n \in 1..(Len(ks) - 1) : C17_KeyRank(ks[n]) < C17_KeyRank(ks[n + 1])
C17_Pass ==
    (pc = "loop" /\ idx' = idx + 1) =>
        IF results'.mismatches = results.mismatches + 1
        THEN /\ Len(results'.diffs) = Len(results.diffs) + 1
             /\ SubSeq(results'.diffs, 1, Len(results.diffs)) = results.diffs
             /\ results'.diffs[Len(results'.diffs)].policy = keys[idx]
             /\ results'.matches = results.matches
             /\ results'.missing_in_A = results.missing_in_A
             /\ results'.missing_in_B = results.missing_in_B
        ELSE /\ results'.diffs = results.diffs
             /\ results'.mismatches = results.mismatches
C17_Summary ==
    /\ C17_Ascending(keys)
    /\ C17_Ascending([n \in 1..Len(results.diffs) |-> results.diffs[n].policy])
    /\ Len(results.diffs) = results.mismatches
    /\ pc \in {"loop", "returned", "done"} =>
          \A n \in 1..Len(results.diffs) :
              \E m \in 1..Len(keys) : m < idx /\ keys[m] = results.diffs[n].policy
C17_OrderedDiffs == [][C17_Pass]_vars /\ []C17_Summary
C17_Witness ==
    /\ C1_Returned
    /\ dfA = Frame(key, prem, <<Row("P2", Num(5000)), Row("P1", Num(10000))>>)
    /\ dfB = Frame(key, prem, <<Row("P2", Num(10000)), Row("P1", Num(7500))>>)
    /\ results.mismatches = 2
    /\ results.diffs = <<[policy |-> "P1", a |-> Num(10000), b |-> Num(7500)],
                         [policy |-> "P2", a |-> Num(5000), b |-> Num(10000)]>>

====
